---- MODULE Spec2Model ----
(***************************************************************************)
(* Model of the rule evaluation engine of listgen.py: the Interval range   *)
(* matcher, the Conditional / MediaBar.get_selected selector and the       *)
(* DynamicPlaylist.compile filter compiler.                                *)
(*                                                                         *)
(* A text is a sequence of one-character strings.  A Python value is a     *)
(* record [k, n, d, s]: k is its type ("none", "num", "str", "list",       *)
(* "datetime"); a number is the fraction n / d, a string is the text s, a  *)
(* list holds the texts s[1], s[2], ...; a datetime is ordered by n.       *)
(***************************************************************************)
EXTENDS Integers, Sequences, FiniteSets, TLC

VARIABLES
    pc,             \* position of the running operation
    text,           \* Interval.__interval: the text to parse
    ivl,            \* the Interval object under construction / constructed
    value,          \* the argument of the last Interval.contains call
    res,            \* the outcome of the last Interval.contains call
    conditionals,   \* MediaBar.conditionals
    clock,          \* index into Moments of what dt.datetime.now() returns
    idx,            \* loop position of get_selected
    reads,          \* the clock value each is_true call of get_selected read
    selected,       \* get_selected's local `selected` (index into conditionals)
    user,           \* the user get_selected is called for (jellyfin.get_user)
    raised,         \* the exception an operation ended with, or "none"
    playlist,       \* the DynamicPlaylist definition being compiled
    source,         \* the metadata source (the Jellyfin server) behind `jellyfin`
    calls,          \* the metadata source calls made so far
    url_params,     \* compile's get_all_items__url_params
    library_ids,    \* compile's library_ids still to fetch
    all_items,      \* compile's all_items
    compiled,       \* the item ids of the StaticPlaylist that compile built
    runs,           \* the earlier compile calls on the same playlist: what each did
    failed,         \* the position in calls of the call that failed, or 0
    conditional_names, \* the name of each conditional: the playlist it selects
    playlists,      \* MediaBar.playlists
    filedata,       \* the configuration that yaml.load returned
    args,           \* the keyword arguments of StaticPlaylist(...)
    static_playlist,\* the StaticPlaylist object
    items_metadata, \* sort's items_metadata
    keys,           \* the sort keys of items_metadata, in its order before the sort
    sorted_ids      \* the item ids that sort returned

intervalVars == <<text, ivl, value, res>>
selectorVars == <<conditionals, clock, idx, reads, selected, user>>
compilerVars == <<playlist, source, calls, url_params, library_ids, all_items,
                  compiled, runs, failed>>

mediabarVars == <<conditional_names, playlists, filedata>>
sorterVars == <<args, static_playlist, items_metadata, keys, sorted_ids>>

vars == <<pc, raised, intervalVars, selectorVars, compilerVars, mediabarVars, sorterVars>>

----------------------------------------------------------------------------
(* Characters and Python values *)

\* The characters in use, in code point order.
CharList ==
    <<" ", ",", "-", ".", "0", "1", "2", "3", "4", "5", "6", "7", "8", "9",
      "A", "B", "C", "D", "E", "F", "G", "H", "I", "J", "K", "L", "M",
      "N", "O", "P", "Q", "R", "S", "T", "U", "V", "W", "X", "Y", "Z", "_",
      "a", "b", "c", "d", "e", "f", "g", "h", "i", "j", "k", "l", "m",
      "n", "o", "p", "q", "r", "s", "t", "u", "v", "w", "x", "y", "z">>

Chars == {CharList[i] : i \in 1..Len(CharList)}

ord(c) == CHOOSE i \in 1..Len(CharList) : CharList[i] = c

DigitChars == {"0", "1", "2", "3", "4", "5", "6", "7", "8", "9"}

LowerChars == {c \in Chars : ord(c) >= ord("a") /\ ord(c) <= ord("z")}

digit(c) == ord(c) - ord("0")

RECURSIVE pow10(_)
pow10(n) == IF n = 0 THEN 1 ELSE 10 * pow10(n - 1)

None == [k |-> "none", n |-> 0, d |-> 1, s |-> <<>>]
Num(n, d) == [k |-> "num", n |-> n, d |-> d, s |-> <<>>]
Str(s) == [k |-> "str", n |-> 0, d |-> 1, s |-> s]
List(l) == [k |-> "list", n |-> 0, d |-> 1, s |-> l]
\* a datetime, ordered by n: year, month, day and hour as yyyymmddhh
DateTime(n) == [k |-> "datetime", n |-> n, d |-> 1, s |-> <<>>]

\* the one-character strings of a string
chars(str) == [i \in 1..Len(str) |-> SubSeq(str, i, i)]

\* the outcome of an expression: its value, or the exception it raised
Ret(b) == [err |-> "none", val |-> b]
Raise(e) == [err |-> e, val |-> FALSE]

\* str < str of Python: lexicographic by code point
RECURSIVE str_lt(_, _)
str_lt(a, b) ==
    IF Len(b) = 0 THEN FALSE
    ELSE IF Len(a) = 0 THEN TRUE
    ELSE IF a[1] # b[1] THEN ord(a[1]) < ord(b[1])
    ELSE str_lt(Tail(a), Tail(b))

\* a <= b of Python: defined within one type, a TypeError across types
py_le(a, b) ==
    IF a.k = "num" /\ b.k = "num"
        THEN Ret(a.n * b.d <= b.n * a.d)
    ELSE IF a.k = "str" /\ b.k = "str"
        THEN Ret(a.s = b.s \/ str_lt(a.s, b.s))
    ELSE IF a.k = "datetime" /\ b.k = "datetime"
        THEN Ret(a.n <= b.n)
    ELSE Raise("TypeError")

\* a > b of Python
py_gt(a, b) ==
    IF a.k = "num" /\ b.k = "num"
        THEN Ret(a.n * b.d > b.n * a.d)
    ELSE IF a.k = "str" /\ b.k = "str"
        THEN Ret(str_lt(b.s, a.s))
    ELSE IF a.k = "datetime" /\ b.k = "datetime"
        THEN Ret(a.n > b.n)
    ELSE Raise("TypeError")

\* a == b of Python: False across types
py_eq(a, b) ==
    IF a.k = "num" /\ b.k = "num" THEN a.n * b.d = b.n * a.d
    ELSE IF a.k # b.k THEN FALSE
    ELSE a = b

----------------------------------------------------------------------------
(* Interval.__parse_interval *)

\* re.fullmatch of [0-9]+
digits_pattern(s) == Len(s) >= 1 /\ \A i \in 1..Len(s) : s[i] \in DigitChars

\* re.fullmatch of numeric_pattern, [0-9]+(\.[0-9]+)?
numeric_pattern(s) ==
    \/ digits_pattern(s)
    \/ \E d \in 1..Len(s) :
        /\ s[d] = "."
        /\ digits_pattern(SubSeq(s, 1, d - 1))
        /\ digits_pattern(SubSeq(s, d + 1, Len(s)))

\* re.fullmatch of alphabetic_pattern, [a-z]+
alphabetic_pattern(s) == Len(s) >= 1 /\ \A i \in 1..Len(s) : s[i] \in LowerChars

\* re.fullmatch of date_pattern, [0-9]{4}_[0-9]{2}_[0-9]{2}
date_pattern(s) ==
    /\ Len(s) = 10
    /\ s[5] = "_" /\ s[8] = "_"
    /\ \A i \in {1, 2, 3, 4, 6, 7, 9, 10} : s[i] \in DigitChars

\* re.fullmatch of any_pattern, [^-]+
any_pattern(s) == Len(s) >= 1 /\ \A i \in 1..Len(s) : s[i] # "-"

\* re.fullmatch of separator_pattern, " *- *"
separator_pattern(s) ==
    \E d \in 1..Len(s) :
        /\ s[d] = "-"
        /\ \A i \in 1..Len(s) : i # d => s[i] = " "

\* re.fullmatch of any_pattern + separator_pattern + any_pattern
closed_pattern(s) ==
    \E i \in 1..Len(s) : \E j \in i..Len(s) :
        /\ any_pattern(SubSeq(s, 1, i))
        /\ separator_pattern(SubSeq(s, i + 1, j))
        /\ any_pattern(SubSeq(s, j + 1, Len(s)))

\* re.fullmatch of separator_pattern + any_pattern
left_open_pattern(s) ==
    \E j \in 1..Len(s) :
        /\ separator_pattern(SubSeq(s, 1, j))
        /\ any_pattern(SubSeq(s, j + 1, Len(s)))

\* re.fullmatch of any_pattern + separator_pattern
right_open_pattern(s) ==
    \E i \in 1..Len(s) :
        /\ any_pattern(SubSeq(s, 1, i))
        /\ separator_pattern(SubSeq(s, i + 1, Len(s)))

\* interval_type without the branch of the open shape "-"
interval_type_no_open(s) ==
    IF closed_pattern(s) THEN "closed"
    ELSE IF left_open_pattern(s) THEN "left-open"
    ELSE IF right_open_pattern(s) THEN "right-open"
    ELSE IF any_pattern(s) THEN "exact"
    ELSE "SyntaxError"

\* the if / elif chain that sets __interval_type, or raises SyntaxError
interval_type(s) ==
    IF closed_pattern(s) THEN "closed"
    ELSE IF left_open_pattern(s) THEN "left-open"
    ELSE IF right_open_pattern(s) THEN "right-open"
    ELSE IF separator_pattern(s) THEN "open"
    ELSE IF any_pattern(s) THEN "exact"
    ELSE "SyntaxError"

RECURSIVE rstrip(_)
rstrip(s) ==
    IF Len(s) > 0 /\ s[Len(s)] = " " THEN rstrip(SubSeq(s, 1, Len(s) - 1)) ELSE s

RECURSIVE lstrip(_)
lstrip(s) == IF Len(s) > 0 /\ s[1] = " " THEN lstrip(Tail(s)) ELSE s

\* re.split(" *c *", s): the pieces between the leftmost, greedy,
\* non-overlapping matches of the character c with the spaces around it
RECURSIVE split_on(_, _)
split_on(c, s) ==
    IF \A i \in 1..Len(s) : s[i] # c THEN <<s>>
    ELSE LET d == CHOOSE i \in 1..Len(s) :
                      s[i] = c /\ \A j \in 1..(i - 1) : s[j] # c
         IN  <<rstrip(SubSeq(s, 1, d - 1))>>
                 \o split_on(c, lstrip(SubSeq(s, d + 1, Len(s))))

\* re.split(separator_pattern, s)
re_split(s) == split_on("-", s)

RECURSIVE digits_value(_)
digits_value(s) ==
    IF Len(s) = 0 THEN 0
    ELSE 10 * digits_value(SubSeq(s, 1, Len(s) - 1)) + digit(s[Len(s)])

\* float(token) of a token that matches numeric_pattern
float(s) ==
    IF \E d \in 1..Len(s) : s[d] = "."
    THEN LET d == CHOOSE i \in 1..Len(s) : s[i] = "."
         IN  Num(digits_value(SubSeq(s, 1, d - 1) \o SubSeq(s, d + 1, Len(s))),
                 pow10(Len(s) - d))
    ELSE Num(digits_value(s), 1)

\* an Interval object, or the exception its constructor raised
Interval(err, type, data_type, lower, upper) ==
    [err |-> err, interval_type |-> type, data_type |-> data_type,
     lower_bound |-> lower, upper_bound |-> upper]

IntervalRaise(e) == Interval(e, "none", "none", None, None)

\* dt.datetime.strftime(token, "%Y_%m_%d"): strftime is a method of datetime
\* objects and the token is a str, so the call raises TypeError
datetime_strftime(token) == "TypeError"

\* the bound of one token: numeric, alphabetic or date, or the TypeError of
\* the final else
bound(token) ==
    IF numeric_pattern(token) THEN [err |-> "none", data_type |-> "numeric", v |-> float(token)]
    ELSE IF alphabetic_pattern(token) THEN [err |-> "none", data_type |-> "alphabetic", v |-> Str(token)]
    ELSE IF date_pattern(token) THEN [err |-> datetime_strftime(token), data_type |-> "date", v |-> None]
    ELSE [err |-> "TypeError", data_type |-> "none", v |-> None]

\* the closed branch: the upper token must match the pattern of the lower
closed_interval(lower, upper) ==
    IF numeric_pattern(lower) THEN
        IF numeric_pattern(upper)
        THEN Interval("none", "closed", "numeric", float(lower), float(upper))
        ELSE IntervalRaise("TypeError")
    ELSE IF alphabetic_pattern(lower) THEN
        IF alphabetic_pattern(upper)
        THEN Interval("none", "closed", "alphabetic", Str(lower), Str(upper))
        ELSE IntervalRaise("TypeError")
    ELSE IF date_pattern(lower) THEN
        IF date_pattern(upper)
        THEN IntervalRaise(datetime_strftime(lower))
        ELSE IntervalRaise("TypeError")
    ELSE IntervalRaise("TypeError")

\* Interval(text): __init__ and __parse_interval
parse_interval(s) ==
    LET type == interval_type(s)
        split == re_split(s)
    IN  IF type = "SyntaxError" THEN IntervalRaise("SyntaxError")
        \* upper_bound is None when the text holds no separator, and
        \* re.fullmatch(numeric_pattern, None) raises TypeError
        ELSE IF Len(split) < 2 THEN IntervalRaise("TypeError")
        ELSE LET lower == split[1]
                 upper == split[2]
             IN  CASE type = "closed" -> closed_interval(lower, upper)
                   [] type = "left-open" ->
                        LET b == bound(upper)
                        IN  IF b.err # "none" THEN IntervalRaise(b.err)
                            ELSE Interval("none", type, b.data_type, None, b.v)
                   [] type \in {"right-open", "exact"} ->
                        LET b == bound(lower)
                        IN  IF b.err # "none" THEN IntervalRaise(b.err)
                            ELSE Interval("none", type, b.data_type, b.v, None)
                   [] type = "open" -> Interval("none", type, "none", None, None)

----------------------------------------------------------------------------
(* Interval.contains *)

\* a or b / a and b of Python over outcomes: the right operand is evaluated
\* only when the left one does not decide
py_or(a, b) == IF a.err # "none" \/ a.val THEN a ELSE b
py_and(a, b) == IF a.err # "none" \/ ~a.val THEN a ELSE b

\* contains without the inverted case of a closed interval
contains_never_inverted(i, v) ==
    CASE i.interval_type = "open" -> Ret(TRUE)
      [] i.interval_type = "closed" ->
            py_and(py_le(i.lower_bound, v), py_le(v, i.upper_bound))
      [] i.interval_type = "left-open" -> py_le(v, i.upper_bound)
      [] i.interval_type = "right-open" -> py_le(i.lower_bound, v)
      [] i.interval_type = "exact" -> Ret(py_eq(i.lower_bound, v))
      [] OTHER -> Raise("ValueError")

contains(i, v) ==
    CASE i.interval_type = "open" -> Ret(TRUE)
      [] i.interval_type = "closed" ->
            LET inverted == py_gt(i.lower_bound, i.upper_bound)
            IN  IF inverted.err # "none" THEN inverted
                ELSE IF inverted.val
                THEN py_or(py_le(i.lower_bound, v), py_le(v, i.upper_bound))
                ELSE py_and(py_le(i.lower_bound, v), py_le(v, i.upper_bound))
      [] i.interval_type = "left-open" -> py_le(v, i.upper_bound)
      [] i.interval_type = "right-open" -> py_le(i.lower_bound, v)
      [] i.interval_type = "exact" -> Ret(py_eq(i.lower_bound, v))
      [] OTHER -> Raise("ValueError")

----------------------------------------------------------------------------
(* Bounds and inputs of the Interval specification *)

\* the longest enumerated interval text
MaxLen == 4

\* the characters the enumerated texts are made of
Alphabet == {"2", "4", "a", "c", "A", "-", " ", "."}

\* texts of the documented shapes and domains that the enumeration does not reach
ExampleTexts ==
    {chars("22-04"), chars("5-abc"), chars("abc-xyz"), chars("a-b-c"),
     chars("2000-2010"), chars("1.5-2.25"), chars("abc"), chars("2005"),
     chars("2024_01_01-2024_12_31"), chars("2024_12_31-2024_01_01"),
     chars("-2024_01_01"), chars("2024_01_01-"), chars("2024_01_01"),
     chars("2024_01_01-5"), chars("5-2024_01_01"), chars("a-2024_01_01")}

Texts == UNION {[1..n -> Alphabet] : n \in 0..MaxLen} \cup ExampleTexts

\* the values Interval.contains is called with
Values ==
    {Num(0, 1), Num(2, 1), Num(3, 1), Num(4, 1), Num(12, 1), Num(22, 1),
     Num(23, 1), Num(2005, 1), Num(3, 2), Num(24, 10), Num(9, 4),
     Str(chars("a")), Str(chars("b")), Str(chars("c")), Str(chars("ab")),
     Str(chars("abc")), Str(chars("m")), Str(chars("xyz")), Str(chars("zz")),
     Str(chars("2")), Str(chars("A")), Str(<<>>),
     DateTime(2023123123), DateTime(2024010100), DateTime(2024061512),
     DateTime(2024123100), DateTime(2025010100), None}

NoInterval == IntervalRaise("none")

\* the variables of the selector and of the compiler, at rest
SelectorIdle ==
    /\ conditionals = <<>> /\ clock = 1 /\ idx = 0 /\ reads = <<>> /\ selected = 0
    /\ user = None

CompilerIdle ==
    /\ playlist = <<>> /\ source = <<>> /\ calls = <<>> /\ url_params = <<>>
    /\ library_ids = {} /\ all_items = <<>> /\ compiled = <<>> /\ runs = <<>> /\ failed = 0

MediaBarIdle == conditional_names = <<>> /\ playlists = <<>> /\ filedata = <<>>

SorterIdle ==
    /\ args = <<>> /\ static_playlist = <<>> /\ items_metadata = <<>>
    /\ keys = <<>> /\ sorted_ids = <<>>

IntervalIdle == text = <<>> /\ ivl = NoInterval /\ value = None /\ res = Ret(FALSE)

----------------------------------------------------------------------------
(* The Interval specification: construct an Interval from a text, then call *)
(* contains on it.                                                          *)

IntervalInit ==
    /\ pc = "interval"
    /\ text \in Texts
    /\ ivl = NoInterval /\ value = None /\ res = Ret(FALSE)
    /\ raised = "none"
    /\ SelectorIdle /\ CompilerIdle /\ MediaBarIdle /\ SorterIdle

\* Interval.__init__
IntervalNew ==
    /\ pc = "interval"
    /\ ivl' = parse_interval(text)
    /\ raised' = ivl'.err
    /\ pc' = IF ivl'.err = "none" THEN "constructed" ELSE "raised"
    /\ UNCHANGED <<text, value, res, selectorVars, compilerVars, mediabarVars,
                   sorterVars>>

\* Interval.contains / __contains__
IntervalContains ==
    /\ pc \in {"constructed", "contained"}
    /\ \E v \in Values :
        /\ value' = v
        /\ res' = contains(ivl, v)
    /\ pc' = "contained"
    /\ UNCHANGED <<text, ivl, raised, selectorVars, compilerVars, mediabarVars,
                   sorterVars>>

IntervalNext == IntervalNew \/ IntervalContains

IntervalSpec == IntervalInit /\ [][IntervalNext]_vars

----------------------------------------------------------------------------
(* Conditional.is_true *)

\* a Conditional's conditions dict: a key that is not configured holds None
NoConditions ==
    [disabled |-> FALSE, selected |-> FALSE,
     hours |-> None, weekdays |-> None, days |-> None, weeks |-> None,
     months |-> None, years |-> None, dates |-> None, user_age |-> None]

\* what dt.datetime.now() can return, in the order of time; stamp orders the
\* datetime itself (year, month, day, hour)
Moments ==
    <<[year |-> 2024, month |-> 12, day |-> 31, hour |-> 23, isoweekday |-> 2,
       isoweek |-> 1, stamp |-> 2024123123],
      [year |-> 2025, month |-> 1, day |-> 1, hour |-> 0, isoweekday |-> 3,
       isoweek |-> 1, stamp |-> 2025010100],
      [year |-> 2025, month |-> 5, day |-> 5, hour |-> 12, isoweekday |-> 1,
       isoweek |-> 19, stamp |-> 2025050512]>>

\* the time predicate families in the order of the if / elif chain
Families == <<"hours", "weekdays", "days", "weeks", "months", "years", "dates">>

\* the value of `now` a family's range is asked about
now_value(family, now) ==
    CASE family = "hours" -> Num(now.hour, 1)
      [] family = "weekdays" -> Num(now.isoweekday, 1)
      [] family = "days" -> Num(now.day, 1)
      [] family = "weeks" -> Num(now.isoweek, 1)
      [] family = "months" -> Num(now.month, 1)
      [] family = "years" -> Num(now.year, 1)
      [] family = "dates" -> DateTime(now.stamp)

\* Interval(text).contains(v), or the exception of either
interval_contains(range, v) ==
    LET i == parse_interval(range)
    IN  IF i.err # "none" THEN Raise(i.err) ELSE contains(i, v)

\* int(re.findall(r"[0-9]+", f"0{rating}")[0]): the digits the text starts with
RECURSIVE leading_digits(_)
leading_digits(s) ==
    IF Len(s) > 0 /\ s[1] \in DigitChars THEN <<s[1]>> \o leading_digits(Tail(s))
    ELSE <<>>

parental_rating_num(rating) == digits_value(leading_digits(<<"0">> \o rating))

\* the user_age check of is_true; u is None when no user_id was passed
user_check(c, u) ==
    IF u = None \/ c.user_age = None \/ u.s = <<>> THEN Ret(TRUE)
    ELSE interval_contains(c.user_age.s, Num(parental_rating_num(u.s[1]), 1))

\* is_true with the selected flag read after the time predicates
is_true_selected_last(c, now, u) ==
    IF c.disabled THEN Ret(FALSE)
    ELSE LET present == {f \in 1..Len(Families) : c[Families[f]] # None}
             time_check ==
                IF present = {} THEN Ret(TRUE)
                ELSE LET family == Families[CHOOSE f \in present :
                                                \A g \in present : f <= g]
                     IN  interval_contains(c[family].s, now_value(family, now))
         IN  py_or(py_and(time_check, user_check(c, u)), Ret(c.selected))

\* is_true with every configured time predicate checked
is_true_every_family(c, now, u) ==
    IF c.disabled THEN Ret(FALSE)
    ELSE IF c.selected THEN Ret(TRUE)
    ELSE LET present == {f \in 1..Len(Families) : c[Families[f]] # None}
             checks == {interval_contains(c[Families[f]].s, now_value(Families[f], now)) :
                            f \in present}
             time_check ==
                IF \E r \in checks : r.err # "none"
                THEN CHOOSE r \in checks : r.err # "none"
                ELSE Ret(\A r \in checks : r.val)
         IN  py_and(time_check, user_check(c, u))

is_true(c, now, u) ==
    IF c.disabled THEN Ret(FALSE)
    ELSE IF c.selected THEN Ret(TRUE)
    ELSE LET present == {f \in 1..Len(Families) : c[Families[f]] # None}
             time_check ==
                IF present = {} THEN Ret(TRUE)
                ELSE LET family == Families[CHOOSE f \in present :
                                                \A g \in present : f <= g]
                     IN  interval_contains(c[family].s, now_value(family, now))
         IN  py_and(time_check, user_check(c, u))

----------------------------------------------------------------------------
(* MediaBar.get_selected *)

\* the longest rule list
MaxRules == 2

PredicateChoices ==
    {NoConditions,
     [NoConditions EXCEPT !.hours = Str(chars("22-04"))],
     [NoConditions EXCEPT !.weekdays = Str(chars("1-2"))],
     [NoConditions EXCEPT !.months = Str(chars("5-"))],
     [NoConditions EXCEPT !.years = Str(chars("-2024"))],
     [NoConditions EXCEPT !.weeks = Str(chars("-"))],
     [NoConditions EXCEPT !.hours = Str(chars("12"))],
     [NoConditions EXCEPT !.days = Str(chars("a-b-c"))],
     [NoConditions EXCEPT !.days = Str(chars("a-c"))],
     [NoConditions EXCEPT !.dates = Str(chars("2024_01_01-2024_12_31"))],
     [NoConditions EXCEPT !.hours = Str(chars("22-04")),
                          !.months = Str(chars("2-4"))],
     [NoConditions EXCEPT !.weekdays = Str(chars("1-2")),
                          !.years = Str(chars("2025-")),
                          !.dates = Str(chars("a-b-c"))],
     [NoConditions EXCEPT !.user_age = Str(chars("12-18"))],
     [NoConditions EXCEPT !.hours = Str(chars("22-04")),
                          !.user_age = Str(chars("-6"))]}

FlagChoices ==
    {[NoConditions EXCEPT !.hours = Str(chars("22-04"))],
     [NoConditions EXCEPT !.days = Str(chars("a-b-c"))]}

\* the conditions a rule can carry
ConditionChoices ==
    PredicateChoices
    \cup {[c EXCEPT !.disabled = TRUE] : c \in FlagChoices}
    \cup {[c EXCEPT !.selected = TRUE] : c \in FlagChoices}
    \cup {[c EXCEPT !.disabled = TRUE, !.selected = TRUE] : c \in FlagChoices}

\* get_selected's keyword arguments: no user_id (None), or the user that
\* jellyfin.get_user returns: a list holding Policy.MaxParentalRating as a
\* text, empty when the policy has none
UserChoices == {None, List(<<>>), List(<<chars("16")>>), List(<<chars("PG-13")>>)}

SelectorInit ==
    /\ pc = "get_selected"
    /\ conditionals \in UNION {[1..n -> ConditionChoices] : n \in 0..MaxRules}
    /\ clock \in 1..Len(Moments)
    /\ user \in UserChoices
    /\ idx = 0 /\ reads = <<>> /\ selected = 0
    /\ raised = "none"
    /\ IntervalIdle /\ CompilerIdle /\ MediaBarIdle /\ SorterIdle

\* selected = self.conditionals[-1]
GetSelectedDefault ==
    /\ pc = "get_selected"
    /\ IF Len(conditionals) = 0
       THEN pc' = "raised" /\ raised' = "IndexError" /\ UNCHANGED <<selected, idx>>
       ELSE pc' = "loop" /\ selected' = Len(conditionals) /\ idx' = 1
                         /\ UNCHANGED raised
    /\ UNCHANGED <<conditionals, clock, reads, user, intervalVars, compilerVars,
                   mediabarVars, sorterVars>>

\* GetSelectedLoop without the break: the loop goes on after a satisfied rule
GetSelectedLoop_no_break ==
    /\ pc = "loop"
    /\ IF idx > Len(conditionals)
       THEN pc' = "selected" /\ UNCHANGED <<selected, idx, reads, raised>>
       ELSE LET r == is_true(conditionals[idx], Moments[clock], user)
            IN  /\ reads' = Append(reads, clock)
                /\ IF r.err # "none"
                   THEN pc' = "raised" /\ raised' = r.err /\ UNCHANGED <<selected, idx>>
                   ELSE /\ pc' = "loop" /\ idx' = idx + 1 /\ UNCHANGED raised
                        /\ selected' = IF r.val THEN idx ELSE selected
    /\ UNCHANGED <<conditionals, clock, user, intervalVars, compilerVars, mediabarVars,
                   sorterVars>>

\* one round of the for loop: is_true of the next conditional, or the return
GetSelectedLoop ==
    /\ pc = "loop"
    /\ IF idx > Len(conditionals)
       THEN pc' = "selected" /\ UNCHANGED <<selected, idx, reads, raised>>
       ELSE LET r == is_true(conditionals[idx], Moments[clock], user)
            IN  /\ reads' = Append(reads, clock)
                /\ IF r.err # "none"
                   THEN pc' = "raised" /\ raised' = r.err /\ UNCHANGED <<selected, idx>>
                   ELSE IF r.val
                   THEN pc' = "selected" /\ selected' = idx /\ UNCHANGED <<idx, raised>>
                   ELSE pc' = "loop" /\ idx' = idx + 1 /\ UNCHANGED <<selected, raised>>
    /\ UNCHANGED <<conditionals, clock, user, intervalVars, compilerVars, mediabarVars,
                   sorterVars>>

\* time passes between two reads of the clock
Tick ==
    /\ pc = "loop"
    /\ clock < Len(Moments)
    /\ clock' = clock + 1
    /\ UNCHANGED <<pc, raised, conditionals, idx, reads, selected, user,
                   intervalVars, compilerVars, mediabarVars, sorterVars>>

SelectorNext == GetSelectedDefault \/ GetSelectedLoop \/ Tick

SelectorSpec == SelectorInit /\ [][SelectorNext]_vars

----------------------------------------------------------------------------
(* Toolkit *)

UpperChars == {c \in Chars : ord(c) >= ord("A") /\ ord(c) <= ord("Z")}

\* str.lower
lower(s) ==
    [i \in 1..Len(s) |->
        IF s[i] \in UpperChars THEN CharList[ord(s[i]) + (ord("a") - ord("A"))]
        ELSE s[i]]

Range(seq) == {seq[i] : i \in 1..Len(seq)}

\* Toolkit.parse_list of a str: re.split(r" *, *", value)
parse_list(s) == split_on(",", s)

\* set(filter(bool, Toolkit.parse_list(value)))
parse_set(s) == {t \in Range(parse_list(s)) : t # <<>>}

\* set(map(str.lower, filter(bool, Toolkit.parse_list(value))))
parse_lower_set(s) == {lower(t) : t \in parse_set(s)}

RECURSIVE leading_alnum(_)
leading_alnum(s) ==
    IF Len(s) > 0 /\ s[1] \in LowerChars \cup DigitChars
    THEN <<s[1]>> \o leading_alnum(Tail(s))
    ELSE <<>>

\* re.findall(r"[a-z0-9]+", s)[0], or <<>> when findall finds nothing
RECURSIVE first_token(_)
first_token(s) ==
    IF Len(s) = 0 THEN <<>>
    ELSE IF s[1] \in LowerChars \cup DigitChars THEN leading_alnum(s)
    ELSE first_token(Tail(s))

NoGenre == [Id |-> <<>>, Name |-> <<>>]

\* Toolkit.match_fuzzy(fuzzy, available, name getter, ""): the last entry
\* whose name has the first token of fuzzy; [0] of an empty findall raises
\* IndexError
match_fuzzy(fuzzy, available) ==
    IF \E i \in 1..Len(available) : first_token(lower(available[i].Name)) = <<>>
        THEN [err |-> "IndexError", found |-> FALSE, entry |-> NoGenre]
    ELSE IF first_token(lower(fuzzy)) = <<>>
        THEN [err |-> "IndexError", found |-> FALSE, entry |-> NoGenre]
    ELSE LET hits == {i \in 1..Len(available) :
                        first_token(lower(available[i].Name)) = first_token(lower(fuzzy))}
         IN  IF hits = {}
             THEN [err |-> "none", found |-> FALSE, entry |-> NoGenre]
             ELSE [err |-> "none", found |-> TRUE,
                   entry |-> available[CHOOSE i \in hits : \A j \in hits : j <= i]]

\* an item value as the elements contains_any asks about: the elements of a
\* list, the characters of a str (a str is an Iterable), or the value itself
elements(v) ==
    IF v.k = "list" THEN {Str(v.s[i]) : i \in 1..Len(v.s)}
    ELSE IF v.k = "str" THEN {Str(<<v.s[i]>>) : i \in 1..Len(v.s)}
    ELSE {v}

\* a filter value of compile: an Interval, or a set / list of strs
NoFilter == [kind |-> "none", ivl |-> NoInterval, elems |-> {}]
IntervalFilter(i) == [kind |-> "interval", ivl |-> i, elems |-> {}]
SetFilter(e) == [kind |-> "set", ivl |-> NoInterval, elems |-> e]

\* element in setlike
element_in(f, x) ==
    IF f.kind = "interval" THEN contains(f.ivl, x)
    ELSE Ret(x.k = "str" /\ x.s \in f.elems)

\* Toolkit.contains_any(setlike, setlike_or_element); the elements of one
\* value have one type, so either every `in` raises or none does
contains_any(f, v) ==
    LET any(found) ==
            IF \E r \in found : r.err # "none"
            THEN Raise((CHOOSE r \in found : r.err # "none").err)
            ELSE Ret(\E r \in found : r.val)
    IN  any({element_in(f, x) : x \in elements(v)})

----------------------------------------------------------------------------
(* DynamicPlaylist.compile: the scope *)

Facets ==
    {"item_types", "genres", "library_types", "library_ids", "item_ids",
     "years", "tags", "people_ids", "startwith_name", "runtime",
     "community_rating", "critic_rating", "official_rating", "custom_rating"}

\* an include / exclude dict: a key that is not configured holds None
NoRules == [f \in Facets |-> None]

SupportedItemTypes ==
    {lower(chars(t)) : t \in {"AggregateFolder", "BoxSet", "CollectionFolder",
                              "Episode", "Movie", "Season", "Series", "Video"}}

\* the allowed item types, lines 439-444
item_types(p) ==
    IF p.include.item_types # None
    THEN SupportedItemTypes \cap {lower(t) : t \in Range(parse_list(p.include.item_types.s))}
    ELSE IF p.exclude.item_types # None
    THEN SupportedItemTypes \ {lower(t) : t \in Range(parse_list(p.exclude.item_types.s))}
    ELSE SupportedItemTypes

\* filter(len, map(match_genre_name, names)) once it is iterated: the Ids of
\* the matched genres, or the IndexError of match_fuzzy
matched_genres(names, jellyfin_genres) ==
    LET m == [i \in 1..Len(names) |-> match_fuzzy(names[i], jellyfin_genres)]
    IN  IF \E i \in 1..Len(names) : m[i].err # "none"
        THEN [err |-> "IndexError", sent |-> FALSE, ids |-> {}]
        ELSE [err |-> "none", sent |-> TRUE,
              ids |-> {m[i].entry.Id : i \in {j \in 1..Len(names) : m[j].found}}]

\* the genreIds parameter, lines 449-464
genre_ids(p, jellyfin_genres) ==
    IF p.include.genres # None
    THEN matched_genres(parse_list(p.include.genres.s), jellyfin_genres)
    ELSE IF p.exclude.genres # None
    THEN \* set(jellyfin_genres): a dict is unhashable
         IF Len(jellyfin_genres) > 0
         THEN [err |-> "TypeError", sent |-> FALSE, ids |-> {}]
         ELSE LET m == matched_genres(parse_list(p.exclude.genres.s), jellyfin_genres)
              IN  IF m.err # "none" THEN m
                  ELSE [err |-> "none", sent |-> TRUE, ids |-> {}]
    ELSE [err |-> "none", sent |-> FALSE, ids |-> {}]

SupportedLibraryTypes ==
    {chars(t) : t \in {"unknown", "movies", "tvshows", "homevideos", "boxsets",
                       "playlists", "folders"}}

\* the allowed library types, lines 467-473
library_types(p) ==
    IF p.include.library_types # None
    THEN SupportedLibraryTypes \cap parse_lower_set(p.include.library_types.s)
    ELSE IF p.exclude.library_types # None
    THEN SupportedLibraryTypes \ parse_lower_set(p.exclude.library_types.s)
    ELSE SupportedLibraryTypes

\* the library ids to fetch, lines 478-485
scope_library_ids(p, jellyfin_libraries) ==
    LET libraries == {l \in Range(jellyfin_libraries) :
                        lower(l.CollectionType) \in library_types(p)}
        ids == {l.Id : l \in libraries}
    IN  IF p.include.library_ids # None
        THEN ids \cap parse_set(p.include.library_ids.s)
        ELSE IF p.exclude.library_ids # None
        THEN ids \ parse_set(p.exclude.library_ids.s)
        ELSE ids

\* the answer of the server to get_all_items(parentId, filters, includeItemTypes,
\* genreIds): the items of the library with one of the item types and one of
\* the genres; an empty parameter restricts nothing, and a server with
\* filters = FALSE does not look at the parameters
get_all_items(src, parentId, params) ==
    LET listed(item) ==
            /\ item.ParentId = parentId
            /\ \/ ~src.filters
               \/ /\ (params.includeItemTypes = {}
                        \/ (item.Type # None
                                /\ lower(item.Type.s) \in params.includeItemTypes))
                  /\ (~params.genres_sent \/ params.genreIds = {}
                        \/ item.GenreIds \cap params.genreIds # {})
    IN  SelectSeq(src.items, listed)

\* lines 501-511: exclude.item_ids, then the item type filter, which keeps an
\* item whose MediaType is allowed or whose Type is not empty
scope_items(p, items) ==
    LET kept(item) ==
            /\ p.exclude.item_ids # None
                    => item.Id \notin parse_set(p.exclude.item_ids.s)
            /\ \/ (IF item.MediaType = None THEN <<>> ELSE lower(item.MediaType.s))
                        \in item_types(p)
               \/ (item.Type # None /\ item.Type.s # <<>>)
    IN  SelectSeq(items, kept)

----------------------------------------------------------------------------
(* DynamicPlaylist.compile: the filters *)

strip(s) == lstrip(rstrip(s))

\* a text that int() accepts: digits, single underscores between them, a
\* sign before and white space around
int_digits(s) ==
    /\ Len(s) >= 1
    /\ s[1] \in DigitChars /\ s[Len(s)] \in DigitChars
    /\ \A i \in 1..Len(s) : s[i] \in DigitChars \cup {"_"}
    /\ \A i \in 1..(Len(s) - 1) : ~(s[i] = "_" /\ s[i + 1] = "_")

int_text(s) ==
    \/ int_digits(strip(s))
    \/ Len(strip(s)) >= 2 /\ strip(s)[1] = "-" /\ int_digits(Tail(strip(s)))

\* int(s) == 0 of a text that int() accepts
int_is_zero(s) == \A i \in 1..Len(s) : s[i] \in DigitChars => s[i] = "0"

\* a parsed filter, or the exception parsing it raised
Parsed(err, f) == [err |-> err, f |-> f]

\* lines 520-531: Interval(years), or on SyntaxError the list of the texts
\* whose int() is not 0
years_filter(v) ==
    LET except(i) ==
            IF i.err = "none" THEN Parsed("none", IntervalFilter(i))
            ELSE IF i.err # "SyntaxError" THEN Parsed(i.err, NoFilter)
            ELSE IF \E t \in Range(parse_list(v)) : ~int_text(t)
            THEN Parsed("ValueError", NoFilter)
            ELSE Parsed("none", SetFilter({t \in Range(parse_list(v)) : ~int_is_zero(t)}))
    IN  except(parse_interval(v))

\* lines 544-556: Interval(str(filter).lower())
interval_filter(v) ==
    LET parsed(i) == IF i.err = "none" THEN Parsed("none", IntervalFilter(i))
                     ELSE Parsed(i.err, NoFilter)
    IN  parsed(parse_interval(lower(v)))

\* the filter names in the order compile parses them; the Interval of
\* people_ids replaces the set that the list filter loop stored for it
FilterNames ==
    <<"years", "tags", "startwith_name", "runtime", "people_ids",
      "community_rating", "critic_rating", "official_rating", "custom_rating">>

\* a compile that reads the exclude rule of a filter next to its include rule
rule_read_both(p, side, name) == p[side][name]

\* the rule of one side that compile reads for a filter name: the include
\* rule, or else (elif) the exclude rule
rule_read(p, side, name) ==
    IF side = "include" THEN p.include[name]
    ELSE IF p.include[name] = None THEN p.exclude[name]
    ELSE None

parse_filter(p, side, name) ==
    LET v == rule_read(p, side, name)
    IN  IF v = None THEN Parsed("none", NoFilter)
        ELSE IF name = "years" THEN years_filter(v.s)
        ELSE IF name = "tags" THEN Parsed("none", SetFilter(parse_lower_set(v.s)))
        ELSE interval_filter(v.s)

\* includes / excludes of compile, or the first exception of the parse
parse_filters(p) ==
    LET first(parsed) ==
            LET bad == {i \in 1..Len(FilterNames) :
                            \E side \in {"include", "exclude"} : parsed[side][i].err # "none"}
                i == CHOOSE b \in bad : \A c \in bad : b <= c
            IN  [err |-> IF bad = {} THEN "none"
                         ELSE IF parsed.include[i].err # "none" THEN parsed.include[i].err
                         ELSE parsed.exclude[i].err,
                 includes |-> [j \in 1..Len(FilterNames) |-> parsed.include[j].f],
                 excludes |-> [j \in 1..Len(FilterNames) |-> parsed.exclude[j].f]]
    IN  first([side \in {"include", "exclude"} |->
                [i \in 1..Len(FilterNames) |-> parse_filter(p, side, FilterNames[i])]])

\* an item holds its RunTimeTicks in seconds (units of 10_000_000 ticks), so
\* that ticks / 10_000_000 / 60 is the seconds by SecondsPerMinute
SecondsPerMinute == 60

\* filter_name_get_func, lines 564-574
get_func(name, item) ==
    CASE name = "years" -> item.ProductionYear
      [] name = "tags" -> item.Tags
      [] name = "startwith_name" -> item.Name
      [] name = "runtime" ->
            IF item.RunTimeTicks = None THEN None
            ELSE Num(item.RunTimeTicks.n, item.RunTimeTicks.d * SecondsPerMinute)
      [] name = "people_ids" ->
            IF item.People = None \/ Len(item.People.s) = 0 THEN None ELSE item.People
      [] name = "community_rating" -> item.CommunityRating
      [] name = "critic_rating" -> item.CriticRating
      [] name = "official_rating" -> item.OfficialRating
      [] name = "custom_rating" -> item.CustomRating

\* the contains_any outcomes of one item: one per filter that is set and
\* whose value the item has
asked(filters, item) ==
    {contains_any(filters[i], get_func(FilterNames[i], item)) :
        i \in {j \in 1..Len(FilterNames) :
                /\ filters[j].kind # "none"
                /\ get_func(FilterNames[j], item) # None}}

ItemsRaise(e) == [err |-> e, items |-> <<>>]

\* one pass of a filter loop over an item: item["Name"] of the debug message
\* (lines 580, 604) raises KeyError for an item without a Name, then each
\* contains_any may raise; the item is appended when some contains_any
\* answers `appended`
checked(filters, item, appended) ==
    LET outcome(found) ==
            IF item.Name = None THEN Raise("KeyError")
            ELSE IF \E r \in found : r.err # "none"
            THEN Raise((CHOOSE r \in found : r.err # "none").err)
            ELSE Ret(\E r \in found : r.val = appended)
    IN  outcome(asked(filters, item))

\* the items a filter loop appends, or the exception of the first item whose
\* pass raises
filter_loop(filters, items, appended) ==
    LET append(found) ==
            LET bad == {k \in 1..Len(items) : found[k].err # "none"}
                kept(k) == found[k].val
            IN  IF bad # {}
                THEN ItemsRaise(found[CHOOSE k \in bad : \A j \in bad : k <= j].err)
                ELSE [err |-> "none",
                      items |-> [j \in 1..Cardinality({k \in 1..Len(items) : kept(k)}) |->
                                    items[CHOOSE k \in 1..Len(items) :
                                            /\ kept(k)
                                            /\ Cardinality({h \in 1..k : kept(h)}) = j]]]
    IN  append([k \in 1..Len(items) |-> checked(filters, items[k], appended)])

\* lines 576-595: the items some include filter contains
included_items(includes, items) ==
    IF \A i \in 1..Len(FilterNames) : includes[i].kind = "none"
    THEN [err |-> "none", items |-> items]
    ELSE filter_loop(includes, items, TRUE)

\* lines 600-617: the items some exclude filter does not contain
excluded_items(excludes, items) ==
    IF \A i \in 1..Len(FilterNames) : excludes[i].kind = "none"
    THEN [err |-> "none", items |-> <<>>]
    ELSE filter_loop(excludes, items, FALSE)

SupportedSortBy ==
    {"order", "random", "Name", "OriginalTitle", "SortName", "DateCreated",
     "PremiereDate", "CriticRating", "CommunityRating", "RunTimeTicks",
     "ProductionYear"}

IdsRaise(e) == [err |-> e, ids |-> {}]

\* lines 621-643: the ids of the new StaticPlaylist, or the first exception
\* of the steps before
item_ids(p, filters, included, excluded) ==
    IF filters.err # "none" THEN IdsRaise(filters.err)
    ELSE IF included.err # "none" THEN IdsRaise(included.err)
    ELSE IF excluded.err # "none" THEN IdsRaise(excluded.err)
    \* StaticPlaylist.__init__: raise_for_unsupported_sort_by
    ELSE IF p.sort_by \notin SupportedSortBy THEN IdsRaise("ValueError")
    ELSE [err |-> "none",
          ids |-> ({item.Id : item \in Range(included.items)}
                        \ {item.Id : item \in Range(excluded.items)})
                  \cup (IF p.include.item_ids # None
                        THEN parse_set(p.include.item_ids.s) ELSE {})]

\* lines 501-643 on the fetched items
filter_items(p, fetched) ==
    LET filters == parse_filters(p)
        included == included_items(filters.includes, scope_items(p, fetched))
        excluded == excluded_items(filters.excludes, included.items)
    IN  item_ids(p, filters, included, excluded)

\* lines 493-497 with the library ids iterated in the given order
RECURSIVE fetch_all(_, _, _, _)
fetch_all(src, order, ids, params) ==
    IF order = <<>> THEN <<>>
    ELSE (IF Head(order) \in ids THEN get_all_items(src, Head(order), params) ELSE <<>>)
            \o fetch_all(src, Tail(order), ids, params)

\* compile against a source whose calls succeed, the set of the library ids
\* iterated in the given order: the ids, or the exception
compile(p, src, order) ==
    LET genres == genre_ids(p, src.genres)
        params == [includeItemTypes |-> item_types(p),
                   genres_sent |-> genres.sent, genreIds |-> genres.ids]
        fetched == fetch_all(src, order, scope_library_ids(p, src.libraries), params)
    IN  IF genres.err # "none" THEN IdsRaise(genres.err)
        ELSE filter_items(p, fetched)

----------------------------------------------------------------------------
(* StaticPlaylist *)

\* the ids of a list, each once, in the order of its last occurrence
RECURSIVE unique_by_last_occurrence(_)
unique_by_last_occurrence(ids) ==
    IF ids = <<>> THEN <<>>
    ELSE IF Head(ids) \in Range(Tail(ids)) THEN unique_by_last_occurrence(Tail(ids))
    ELSE <<Head(ids)>> \o unique_by_last_occurrence(Tail(ids))

\* sorted(set(item_ids), key=item_ids.index): the ids of a list, each once, in
\* the order of its first occurrence
RECURSIVE unique(_)
unique(ids) ==
    IF ids = <<>> THEN <<>>
    ELSE IF ids[Len(ids)] \in Range(SubSeq(ids, 1, Len(ids) - 1))
    THEN unique(SubSeq(ids, 1, Len(ids) - 1))
    ELSE Append(unique(SubSeq(ids, 1, Len(ids) - 1)), ids[Len(ids)])

\* the keyword arguments of StaticPlaylist(...); limit is None or a number
Args(name, ids, sort_by, sort_ascending, sort_strict, limit) ==
    [name |-> name, item_ids |-> ids, sort_by |-> sort_by,
     sort_ascending |-> sort_ascending, sort_strict |-> sort_strict, limit |-> limit]

\* StaticPlaylist.__init__: the object, or the ValueError of
\* raise_for_unsupported_sort_by
StaticPlaylist(a) ==
    [err |-> IF a.sort_by \in SupportedSortBy THEN "none" ELSE "ValueError",
     name |-> a.name, item_ids |-> unique(a.item_ids), sort_by |-> a.sort_by,
     sort_ascending |-> a.sort_ascending, sort_strict |-> a.sort_strict,
     limit |-> a.limit]

\* items[:n] of Python
slice_to(items, n) ==
    IF n >= Len(items) THEN items
    ELSE IF n >= 0 THEN SubSeq(items, 1, n)
    ELSE IF Len(items) + n > 0 THEN SubSeq(items, 1, Len(items) + n)
    ELSE <<>>

\* a limit that cuts nothing
Toolkit_limit_all(items, n) == items

\* Toolkit.limit
Toolkit_limit(items, n) == IF n = None THEN items ELSE slice_to(items, n.n)

RECURSIVE reversed(_)
reversed(items) ==
    IF items = <<>> THEN <<>> ELSE Append(reversed(Tail(items)), Head(items))

\* sort_by "order" without the reversal
ordered_never_reversed(ids, sort_ascending) == ids

\* self.item_ids[:] if self.sort_ascending else self.item_ids[::-1]
ordered(ids, sort_ascending) == IF sort_ascending THEN ids ELSE reversed(ids)

\* the sequences random.shuffle can leave of a list
shuffled(ids) ==
    {s \in [1..Len(ids) -> Range(ids)] :
        \A i \in 1..Len(ids) : \E j \in 1..Len(ids) : s[j] = ids[i]}

\* Jellyfin.get_items: the ids go out in chunks of batch_size
batch_size == 60

RECURSIVE chunks(_)
chunks(ids) ==
    IF ids = <<>> THEN <<>>
    ELSE IF Len(ids) <= batch_size THEN <<ids>>
    ELSE <<SubSeq(ids, 1, batch_size)>> \o chunks(SubSeq(ids, batch_size + 1, Len(ids)))

\* the answer of the server to the request for one chunk: the items it has
\* with one of the ids, in its own order
get_chunk(src, chunk) ==
    LET asked_for(item) == item.Id \in Range(chunk)
    IN  SelectSeq(src.items, asked_for)

RECURSIVE get_items(_, _)
get_items(src, ids) ==
    IF Len(ids) <= batch_size
    THEN IF ids = <<>> THEN <<>> ELSE get_chunk(src, ids)
    ELSE get_chunk(src, SubSeq(ids, 1, batch_size))
            \o get_items(src, SubSeq(ids, batch_size + 1, Len(ids)))

\* str(n) of a natural number
RECURSIVE str_nat(_)
str_nat(n) ==
    IF n < 10 THEN <<CharList[ord("0") + n]>>
    ELSE Append(str_nat(n \div 10), CharList[ord("0") + (n % 10)])

\* f"{dateyear}" of a number of the metadata, a text as it is
format(v) == IF v.k = "num" /\ v.d = 1 /\ v.n >= 0 THEN str_nat(v.n) ELSE v.s

\* dateutil.parser.isoparse of a date YYYY-MM-DD: the datetime of its
\* midnight; a ValueError for a text of another shape
isoparse(s) ==
    IF /\ Len(s) = 10 /\ s[5] = "-" /\ s[8] = "-"
       /\ \A i \in {1, 2, 3, 4, 6, 7, 9, 10} : s[i] \in DigitChars
       /\ digits_value(SubSeq(s, 6, 7)) \in 1..12
       /\ digits_value(SubSeq(s, 9, 10)) \in 1..31
       /\ digits_value(SubSeq(s, 1, 4)) >= 1
    THEN Ret(DateTime(digits_value(SubSeq(s, 1, 4)) * 1000000
                        + digits_value(SubSeq(s, 6, 7)) * 10000
                        + digits_value(SubSeq(s, 9, 10)) * 100))
    ELSE Raise("ValueError")

\* metadata.get(key, default)
get(metadata, key, default) == IF metadata[key] = None THEN default ELSE metadata[key]

\* Toolkit.dict_priority_get(metadata, "", ...)
dict_priority_get(metadata, default_value, key_list) ==
    IF \E i \in 1..Len(key_list) : metadata[key_list[i]] # None
    THEN metadata[key_list[CHOOSE i \in 1..Len(key_list) :
                    /\ metadata[key_list[i]] # None
                    /\ \A j \in 1..(i - 1) : metadata[key_list[j]] = None]]
    ELSE default_value

StringSortBy == {"Name", "OriginalTitle", "SortName"}
DateSortBy == {"DateCreated", "PremiereDate"}
NumberSortBy == {"CriticRating", "CommunityRating", "RunTimeTicks", "ProductionYear"}

\* lines 359-365: the strict sorting function
strict_sort_func(sort_by, metadata) ==
    IF sort_by \in StringSortBy THEN Ret(get(metadata, sort_by, Str(<<>>)))
    ELSE IF sort_by \in DateSortBy
    THEN isoparse(format(get(metadata, sort_by, Str(chars("0001-01-01")))))
    ELSE IF sort_by \in NumberSortBy THEN Ret(get(metadata, sort_by, Num(0, 1)))
    ELSE Raise("LookupError")

\* lines 373-396: the sorting function that replaces the strict one when
\* sort_strict is off
lenient_sort_func(sort_by, metadata) ==
    IF sort_by \in StringSortBy
    THEN Ret(dict_priority_get(metadata, Str(<<>>), <<sort_by, "SortName", "Name">>))
    ELSE IF sort_by \in {"CriticRating", "CommunityRating"}
    THEN IF metadata[sort_by] # None THEN Ret(metadata[sort_by])
         ELSE IF sort_by = "CriticRating"
         THEN Ret(Num(get(metadata, "CommunityRating", Num(0, 1)).n * 10,
                      get(metadata, "CommunityRating", Num(0, 1)).d))
         ELSE Ret(Num(get(metadata, "CriticRating", Num(0, 1)).n,
                      get(metadata, "CriticRating", Num(0, 1)).d * 10))
    ELSE IF sort_by \in {"PremiereDate", "ProductionYear"}
    THEN IF metadata[sort_by] # None
         THEN IF sort_by = "PremiereDate" THEN isoparse(metadata[sort_by].s)
              ELSE isoparse(format(metadata[sort_by]) \o chars("-01-01"))
         ELSE IF sort_by = "PremiereDate"
         THEN isoparse(format(get(metadata, "ProductionYear", Str(chars("0001"))))
                        \o chars("-01-01"))
         ELSE isoparse(format(get(metadata, "PremiereDate", Str(chars("0001-01-01")))))
    ELSE strict_sort_func(sort_by, metadata)

\* the sorting function with the strict one in both modes
sort_func_always_strict(sort_by, sort_strict, metadata) ==
    strict_sort_func(sort_by, metadata)

\* sort_func as sort applies it
sort_func(sort_by, sort_strict, metadata) ==
    IF sort_strict THEN strict_sort_func(sort_by, metadata)
    ELSE lenient_sort_func(sort_by, metadata)

\* key a < key b of two keys of one type
key_lt(a, b) == py_gt(b, a).val

\* a sort that leaves the items as they are
sort_left_unsorted(items, ks, reverse) == items

\* list.sort(key=..., reverse=...): stable, and with reverse the items of
\* equal keys keep their order too; ks[i] is the key of items[i]
sort(items, ks, reverse) ==
    LET before(j, i) ==
            \/ IF reverse THEN key_lt(ks[i], ks[j]) ELSE key_lt(ks[j], ks[i])
            \/ ~key_lt(ks[i], ks[j]) /\ ~key_lt(ks[j], ks[i]) /\ j < i
        rank(i) == 1 + Cardinality({j \in 1..Len(items) : before(j, i)})
    IN  [p \in 1..Len(items) |-> items[CHOOSE i \in 1..Len(items) : rank(i) = p]]

\* Toolkit.dict_get_all(items_metadata, "Id")
dict_get_all_Id(items) == [i \in 1..Len(items) |-> items[i].Id]

----------------------------------------------------------------------------
(* The metadata source and the playlists of the compiler specification *)

\* the most include / exclude rules of a playlist
MaxFilters == 2

NoItem ==
    [Id |-> <<>>, Name |-> None, Type |-> None, MediaType |-> None,
     ParentId |-> <<>>, GenreIds |-> {}, ProductionYear |-> None, Tags |-> None,
     RunTimeTicks |-> None, CommunityRating |-> None, CriticRating |-> None,
     OfficialRating |-> None, CustomRating |-> None, People |-> None,
     SortName |-> None, OriginalTitle |-> None, PremiereDate |-> None,
     DateCreated |-> None]

Items ==
    <<[NoItem EXCEPT !.Id = chars("m1"), !.Name = Str(chars("Avatar")),
        !.Type = Str(chars("Movie")), !.MediaType = Str(chars("Video")),
        !.ParentId = chars("l1"), !.GenreIds = {chars("g1")},
        !.ProductionYear = Num(2009, 1),
        !.Tags = List(<<chars("epic"), chars("3d")>>),
        !.RunTimeTicks = Num(9720, 1), !.CommunityRating = Num(79, 10),
        !.CriticRating = Num(82, 1), !.OfficialRating = Str(chars("PG-13")),
        !.People = List(<<chars("p1"), chars("p2")>>),
        !.PremiereDate = Str(chars("2009-12-10"))],
     [NoItem EXCEPT !.Id = chars("m2"), !.Name = Str(chars("Zodiac")),
        !.Type = Str(chars("Movie")), !.MediaType = Str(chars("Video")),
        !.ParentId = chars("l1"), !.GenreIds = {chars("g2")},
        !.ProductionYear = Num(2007, 1), !.Tags = List(<<>>),
        !.RunTimeTicks = Num(9420, 1), !.CommunityRating = Num(77, 10),
        !.OfficialRating = Str(chars("R")), !.People = List(<<>>)],
     [NoItem EXCEPT !.Id = chars("m3"), !.Name = Str(chars("Up")),
        !.Type = Str(chars("Movie")), !.MediaType = Str(chars("Video")),
        !.ParentId = chars("l1"), !.GenreIds = {chars("g3")},
        !.Tags = List(<<chars("Epic")>>),
        !.CommunityRating = Num(83, 10), !.CriticRating = Num(98, 1),
        !.CustomRating = Str(chars("kids")), !.People = List(<<chars("p3")>>),
        !.SortName = Str(chars("up")), !.PremiereDate = Str(chars("2009-05-29"))],
     [NoItem EXCEPT !.Id = chars("e1"), !.Name = Str(chars("Pilot")),
        !.Type = Str(chars("Episode")), !.MediaType = Str(chars("Video")),
        !.ParentId = chars("l2"), !.GenreIds = {chars("g2")},
        !.ProductionYear = Num(2015, 1), !.RunTimeTicks = Num(2700, 1),
        !.People = List(<<chars("p1")>>)]>>

\* an item the server lists without a Name
Nameless ==
    [NoItem EXCEPT !.Id = chars("n1"), !.Type = Str(chars("Movie")),
        !.MediaType = Str(chars("Video")), !.ParentId = chars("l1"),
        !.GenreIds = {chars("g1")}, !.ProductionYear = Num(2004, 1)]

Genres ==
    <<[Id |-> chars("g1"), Name |-> chars("Action")],
      [Id |-> chars("g2"), Name |-> chars("Thriller")],
      [Id |-> chars("g3"), Name |-> chars("Science Fiction")]>>

Libraries ==
    <<[Id |-> chars("l1"), Name |-> chars("Movies"), CollectionType |-> chars("movies")],
      [Id |-> chars("l2"), Name |-> chars("Shows"), CollectionType |-> chars("tvshows")]>>

\* a server that applies the parameters of get_all_items, one that ignores
\* them, one without genres and one that lists an item without a Name
Sources ==
    {[genres |-> Genres, libraries |-> Libraries, items |-> Items, filters |-> TRUE],
     [genres |-> Genres, libraries |-> Libraries, items |-> Items, filters |-> FALSE],
     [genres |-> <<>>, libraries |-> Libraries,
      items |-> [i \in 1..Len(Items) |-> [Items[i] EXCEPT !.GenreIds = {}]],
      filters |-> TRUE],
     [genres |-> Genres, libraries |-> Libraries, items |-> Append(Items, Nameless),
      filters |-> TRUE]}

Rule(side, facet, v) == [side |-> side, facet |-> facet, v |-> Str(chars(v))]

\* the rules a playlist can carry
RuleChoices ==
    {Rule("include", "item_types", "Movie"),
     Rule("include", "item_types", "Episode"),
     Rule("exclude", "item_types", "episode, Series"),
     Rule("include", "genres", "thriller, zzz"),
     Rule("exclude", "genres", "action"),
     Rule("include", "library_types", "Movies"),
     Rule("exclude", "library_types", "tvshows"),
     Rule("include", "library_ids", "l2"),
     Rule("exclude", "library_ids", "l1"),
     Rule("include", "item_ids", "e1, x9"),
     Rule("exclude", "item_ids", "m1, e1"),
     Rule("include", "years", "2000-2010"),
     Rule("include", "years", "-1,-2"),
     Rule("exclude", "years", "2009-"),
     Rule("include", "tags", "Epic"),
     Rule("exclude", "tags", "3d"),
     Rule("include", "people_ids", "p1"),
     Rule("exclude", "people_ids", "a-z"),
     Rule("include", "startwith_name", "a-c"),
     Rule("exclude", "startwith_name", "u-z"),
     Rule("include", "runtime", "90-160"),
     Rule("exclude", "runtime", "-60"),
     Rule("include", "community_rating", "7.8-"),
     Rule("exclude", "community_rating", "-8"),
     Rule("include", "critic_rating", "90-"),
     Rule("exclude", "critic_rating", "80-85"),
     Rule("include", "official_rating", "A-Z"),
     Rule("exclude", "official_rating", "k-m"),
     Rule("include", "custom_rating", "k-m"),
     Rule("exclude", "custom_rating", "a-c")}

\* the include / exclude dict that a sequence of rules configures
rules_of(side, rules) ==
    [f \in Facets |->
        IF \E i \in 1..Len(rules) : rules[i].side = side /\ rules[i].facet = f
        THEN rules[CHOOSE i \in 1..Len(rules) :
                    /\ rules[i].side = side /\ rules[i].facet = f
                    /\ \A j \in 1..Len(rules) :
                            (rules[j].side = side /\ rules[j].facet = f) => j <= i].v
        ELSE None]

DynamicPlaylist(name, limit, include, exclude, sort_by) ==
    [name |-> name, limit |-> limit, include |-> include, exclude |-> exclude,
     sort_by |-> sort_by, sort_ascending |-> TRUE, sort_strict |-> FALSE]

Playlists ==
    {DynamicPlaylist("mix", 10, rules_of("include", rules), rules_of("exclude", rules),
                     sort_by) :
        rules \in UNION {[1..n -> RuleChoices] : n \in 0..MaxFilters},
        sort_by \in {"order", "Rating"}}

\* the rules of a playlist that is compiled twice
MaxRecompiled == 1

NoParams == [includeItemTypes |-> {}, genres_sent |-> FALSE, genreIds |-> {}]

----------------------------------------------------------------------------
(* The compiler specification: DynamicPlaylist.compile of one playlist      *)
(* against one metadata source, one action per request to the source.      *)

Call(op, parentId, params) == [op |-> op, parentId |-> parentId, params |-> params]

CompileInit ==
    /\ pc = "compile"
    /\ raised = "none"
    /\ playlist \in Playlists
    /\ source \in Sources
    /\ calls = <<>>
    /\ url_params = NoParams
    /\ library_ids = {}
    /\ all_items = <<>>
    /\ compiled = <<>> /\ runs = <<>> /\ failed = 0
    /\ IntervalIdle /\ SelectorIdle /\ MediaBarIdle /\ SorterIdle

\* the item listing requests among some calls
item_requests(cs) == SelectSeq(cs, LAMBDA c : c.op = "get_all_items")

\* lines 436-464: the item types, get_all_genres and the genreIds parameter
CompileGenres ==
    /\ pc = "compile"
    /\ calls' = Append(calls, Call("get_all_genres", <<>>, NoParams))
    /\ LET genres == genre_ids(playlist, source.genres)
       IN  IF genres.err # "none"
           THEN /\ pc' = "raised" /\ raised' = genres.err
                /\ compiled' = IdsRaise(genres.err)
                /\ url_params' = [url_params EXCEPT
                                    !.includeItemTypes = item_types(playlist)]
           ELSE /\ pc' = "libraries"
                /\ url_params' = [includeItemTypes |-> item_types(playlist),
                                  genres_sent |-> genres.sent, genreIds |-> genres.ids]
                /\ UNCHANGED <<raised, compiled>>
    /\ UNCHANGED <<playlist, source, failed, runs, library_ids, all_items, intervalVars,
                   selectorVars, mediabarVars, sorterVars>>

\* lines 467-487: get_all_libraries and the library ids to fetch
CompileLibraries ==
    /\ pc = "libraries"
    /\ calls' = Append(calls, Call("get_all_libraries", <<>>, NoParams))
    /\ library_ids' = scope_library_ids(playlist, source.libraries)
    /\ pc' = "fetch"
    /\ UNCHANGED <<raised, playlist, source, failed, runs, url_params, all_items, compiled,
                   intervalVars, selectorVars, mediabarVars, sorterVars>>

\* lines 494-497: one get_all_items per library id, in the order of a set
CompileFetch ==
    /\ pc = "fetch"
    /\ \E library_id \in library_ids :
        \* within one process a set built the same way iterates the same way
        /\ runs # <<>> =>
                library_id = item_requests(runs[1].calls)[Len(item_requests(calls)) + 1].parentId
        /\ calls' = Append(calls, Call("get_all_items", library_id, url_params))
        /\ all_items' = all_items \o get_all_items(source, library_id, url_params)
        /\ library_ids' = library_ids \ {library_id}
    /\ UNCHANGED <<pc, raised, playlist, source, failed, runs, url_params, compiled,
                   intervalVars, selectorVars, mediabarVars, sorterVars>>

\* lines 501-648: filter the fetched items and build the StaticPlaylist
CompileFilter ==
    /\ pc = "fetch"
    /\ library_ids = {}
    /\ \E filters \in {parse_filters(playlist)} :
       \E included \in {included_items(filters.includes,
                                        scope_items(playlist, all_items))} :
       \E excluded \in {excluded_items(filters.excludes, included.items)} :
            compiled' = item_ids(playlist, filters, included, excluded)
    /\ raised' = compiled'.err
    /\ pc' = IF compiled'.err = "none" THEN "compiled" ELSE "raised"
    /\ UNCHANGED <<playlist, source, failed, runs, calls, url_params, library_ids, all_items,
                   intervalVars, selectorVars, mediabarVars, sorterVars>>

\* what a finished compile call did
Run == [raised |-> raised, ids |-> IF raised = "none" THEN compiled.ids ELSE {},
        calls |-> calls, playlist |-> playlist]

\* a compile that takes its include.item_ids rule out of the definition
CompileAgain_consuming ==
    /\ pc \in {"compiled", "raised"}
    /\ runs = <<>>
    /\ runs' = Append(runs, Run)
    /\ playlist' = [playlist EXCEPT !.include.item_ids = None]
    /\ pc' = "compile" /\ raised' = "none"
    /\ calls' = <<>> /\ url_params' = NoParams
    /\ library_ids' = {} /\ all_items' = <<>> /\ compiled' = <<>>
    /\ UNCHANGED <<source, failed, intervalVars, selectorVars, mediabarVars, sorterVars>>

\* line 429: compile is called again on the same DynamicPlaylist object, in
\* the same process; its locals start afresh, self and the source are as the
\* call before left them
CompileAgain ==
    /\ pc \in {"compiled", "raised"}
    /\ runs = <<>>
    /\ runs' = Append(runs, Run)
    /\ pc' = "compile" /\ raised' = "none"
    /\ calls' = <<>> /\ url_params' = NoParams
    /\ library_ids' = {} /\ all_items' = <<>> /\ compiled' = <<>>
    /\ UNCHANGED <<playlist, source, failed, intervalVars, selectorVars, mediabarVars,
                   sorterVars>>

CompileNext == CompileGenres \/ CompileLibraries \/ CompileFetch \/ CompileFilter

CompileSpec == CompileInit /\ [][CompileNext]_vars

\* compile called twice on one DynamicPlaylist object
RecompileInit ==
    /\ pc = "compile"
    /\ raised = "none"
    /\ playlist \in {p \in Playlists :
            Cardinality({f \in Facets : p.include[f] # None})
                + Cardinality({f \in Facets : p.exclude[f] # None}) <= MaxRecompiled}
    /\ source \in Sources
    /\ calls = <<>>
    /\ url_params = NoParams
    /\ library_ids = {}
    /\ all_items = <<>>
    /\ compiled = <<>> /\ runs = <<>> /\ failed = 0
    /\ IntervalIdle /\ SelectorIdle /\ MediaBarIdle /\ SorterIdle

RecompileNext == CompileNext \/ CompileAgain

RecompileSpec == RecompileInit /\ [][RecompileNext]_vars

----------------------------------------------------------------------------
(* The playlist specification: StaticPlaylist(...) of one list of item ids, *)
(* then sort of the object against one metadata source.                    *)

\* the longest list of item ids handed to StaticPlaylist(...)
MaxIds == 3

\* ids of the catalogue, and one that the server does not know
ItemIds ==
    {chars("m1"), chars("m2"), chars("m3"), chars("e1"), chars("n1"), chars("x9")}

ArgsChoices ==
    {Args("list", ids, sort_by, sort_ascending, sort_strict, n) :
        ids \in UNION {[1..n -> ItemIds] : n \in 0..MaxIds}
                \cup {<<chars("m1"), chars("m2"), chars("m1"), chars("m3"), chars("m2")>>},
        sort_by \in SupportedSortBy \cup {"Rating"},
        sort_ascending \in BOOLEAN, sort_strict \in BOOLEAN,
        n \in {None, Num(2, 1)}}

PlaylistInit ==
    /\ pc = "new"
    /\ raised = "none"
    /\ args \in ArgsChoices
    /\ source = [genres |-> Genres, libraries |-> Libraries,
                 items |-> Append(Items, Nameless), filters |-> TRUE]
    /\ static_playlist = <<>> /\ items_metadata = <<>> /\ keys = <<>>
    /\ sorted_ids = <<>>
    /\ playlist = <<>> /\ calls = <<>> /\ url_params = <<>> /\ library_ids = {}
    /\ all_items = <<>> /\ compiled = <<>> /\ runs = <<>> /\ failed = 0
    /\ IntervalIdle /\ SelectorIdle /\ MediaBarIdle

\* StaticPlaylist.__init__
StaticNew ==
    /\ pc = "new"
    /\ static_playlist' = StaticPlaylist(args)
    /\ raised' = static_playlist'.err
    /\ pc' = IF static_playlist'.err = "none" THEN "static" ELSE "raised"
    /\ UNCHANGED <<args, items_metadata, keys, sorted_ids, mediabarVars,
                   intervalVars, selectorVars, compilerVars>>

\* sort, case "order"
SortOrder ==
    /\ pc = "static"
    /\ static_playlist.sort_by = "order"
    /\ sorted_ids' = Toolkit_limit(ordered(static_playlist.item_ids,
                                           static_playlist.sort_ascending),
                                   static_playlist.limit)
    /\ pc' = "sorted"
    /\ UNCHANGED <<raised, args, static_playlist, items_metadata, keys,
                   mediabarVars, intervalVars, selectorVars, compilerVars>>

\* sort, case "random"
SortRandom ==
    /\ pc = "static"
    /\ static_playlist.sort_by = "random"
    /\ \E item_ids_shuffled \in shuffled(static_playlist.item_ids) :
            sorted_ids' = Toolkit_limit(item_ids_shuffled, static_playlist.limit)
    /\ pc' = "sorted"
    /\ UNCHANGED <<raised, args, static_playlist, items_metadata, keys,
                   mediabarVars, intervalVars, selectorVars, compilerVars>>

\* sort, line 355: jellyfin.get_items, one request per chunk of ids
SortFetch ==
    /\ pc = "static"
    /\ static_playlist.sort_by \notin {"order", "random"}
    /\ \E requests \in {chunks(static_playlist.item_ids)} :
            calls' = calls \o [i \in 1..Len(requests) |->
                                Call("get_items", <<>>, [ids |-> requests[i]])]
    /\ items_metadata' = get_items(source, static_playlist.item_ids)
    /\ pc' = "fetched"
    /\ UNCHANGED <<raised, args, static_playlist, keys, sorted_ids, playlist, source, failed, runs,
                   url_params, library_ids, all_items, compiled, mediabarVars,
                   intervalVars, selectorVars>>

\* sort, lines 358-410: the keys, the sort, the limit and the ids
SortItems ==
    /\ pc = "fetched"
    /\ \E ks \in {[i \in 1..Len(items_metadata) |->
                    sort_func(static_playlist.sort_by, static_playlist.sort_strict,
                              items_metadata[i])]} :
        IF \E i \in 1..Len(ks) : ks[i].err # "none"
        THEN \E e \in {CHOOSE i \in 1..Len(ks) :
                        /\ ks[i].err # "none"
                        /\ \A j \in 1..(i - 1) : ks[j].err = "none"} :
                /\ keys' = SubSeq(ks, 1, e)
                /\ raised' = ks[e].err /\ pc' = "raised"
                /\ UNCHANGED <<items_metadata, sorted_ids>>
        ELSE \E result \in {Toolkit_limit(sort(items_metadata,
                                               [i \in 1..Len(ks) |-> ks[i].val],
                                               ~static_playlist.sort_ascending),
                                          static_playlist.limit)} :
                /\ keys' = ks
                /\ items_metadata' = result
                /\ IF \E i \in 1..Len(result) : result[i].Name = None
                   THEN raised' = "KeyError" /\ pc' = "raised" /\ UNCHANGED sorted_ids
                   ELSE /\ sorted_ids' = dict_get_all_Id(result) /\ pc' = "sorted"
                        /\ UNCHANGED raised
    /\ UNCHANGED <<args, static_playlist, mediabarVars, intervalVars, selectorVars,
                   compilerVars>>

PlaylistNext == StaticNew \/ SortOrder \/ SortRandom \/ SortFetch \/ SortItems

PlaylistSpec == PlaylistInit /\ [][PlaylistNext]_vars

----------------------------------------------------------------------------
(* The evaluation specification: MediaBar.evaluate of one configuration     *)
(* against one metadata source: get_selected, get_playlist, compile of a   *)
(* dynamic playlist, sort.                                                 *)

\* the items of the server the configurations are evaluated against
Films ==
    <<[NoItem EXCEPT !.Id = chars("f1"), !.Name = Str(chars("Matrix")),
        !.Type = Str(chars("Movie")), !.MediaType = Str(chars("Video")),
        !.ParentId = chars("l1"), !.ProductionYear = Num(1999, 1),
        !.CommunityRating = Num(87, 10)],
      [NoItem EXCEPT !.Id = chars("f2"), !.Name = Str(chars("Amelie")),
        !.Type = Str(chars("Movie")), !.MediaType = Str(chars("Video")),
        !.ParentId = chars("l1"), !.ProductionYear = Num(2001, 1),
        !.CommunityRating = Num(83, 10)],
      [NoItem EXCEPT !.Id = chars("f3"), !.Name = Str(chars("Serenity")),
        !.Type = Str(chars("Movie")), !.MediaType = Str(chars("Video")),
        !.ParentId = chars("l1"), !.ProductionYear = Num(2005, 1),
        !.CommunityRating = Num(78, 10)],
      [NoItem EXCEPT !.Id = chars("f4"), !.Name = Str(chars("Inception")),
        !.Type = Str(chars("Movie")), !.MediaType = Str(chars("Video")),
        !.ParentId = chars("l1"), !.ProductionYear = Num(2010, 1),
        !.CommunityRating = Num(83, 10)],
      [NoItem EXCEPT !.Id = chars("f5"), !.Name = Str(chars("Sicario")),
        !.Type = Str(chars("Movie")), !.MediaType = Str(chars("Video")),
        !.ParentId = chars("l1"), !.ProductionYear = Num(2015, 1)],
      [NoItem EXCEPT !.Id = chars("s1"), !.Name = Str(chars("Pilot")),
        !.Type = Str(chars("Episode")), !.MediaType = Str(chars("Video")),
        !.ParentId = chars("l2"), !.ProductionYear = Num(2005, 1),
        !.CommunityRating = Num(90, 10)]>>

\* the include rules of the dynamic playlist of a configuration
IncludeChoices ==
    {<<Rule("include", "item_types", "Movie"), Rule("include", "years", "2000-2010")>>,
     <<Rule("include", "item_types", "Movie"), Rule("include", "years", "1999-2005")>>,
     <<Rule("include", "years", "2005-")>>,
     <<Rule("include", "item_types", "Movie"), Rule("include", "years", "2000-2010"),
       Rule("include", "item_ids", "x9")>>}

\* MediaBar.playlists: a static playlist and a dynamic one
PlaylistChoices ==
    {<<StaticPlaylist(Args(chars("list"),
                           <<chars("f4"), chars("f1"), chars("f4"), chars("f2")>>,
                           static_sort_by, TRUE, FALSE, None)),
       [DynamicPlaylist(chars("films"), n, rules_of("include", rules), NoRules,
                        sort_by)
            EXCEPT !.sort_ascending = sort_ascending]>> :
        static_sort_by \in {"order", "random"},
        n \in {2, 10},
        rules \in IncludeChoices,
        sort_by \in {"ProductionYear", "CommunityRating", "Name", "order"},
        sort_ascending \in BOOLEAN}

\* MediaBar.conditionals with the name of each
ConditionalChoices ==
    {[conditionals |-> <<[NoConditions EXCEPT !.hours = Str(chars("22-04"))],
                         NoConditions>>,
      names |-> <<chars("list"), chars("films")>>],
     [conditionals |-> <<NoConditions>>, names |-> <<chars("films")>>],
     [conditionals |-> <<NoConditions>>, names |-> <<chars("gone")>>],
     [conditionals |-> <<[NoConditions EXCEPT !.days = Str(chars("a-b-c"))]>>,
      names |-> <<chars("films")>>],
     [conditionals |-> <<[NoConditions EXCEPT !.hours = Str(chars("22-04"))],
                         NoConditions>>,
      names |-> <<chars("gone"), chars("films")>>]}

\* the server applies the parameters of a request, as a Jellyfin server does
EvaluateInit ==
    /\ pc = "get_selected"
    /\ raised = "none"
    /\ \E bar \in ConditionalChoices :
            conditionals = bar.conditionals /\ conditional_names = bar.names
    /\ playlists \in PlaylistChoices
    /\ filedata = <<>>
    /\ clock \in 1..Len(Moments)
    /\ user = None
    /\ idx = 0 /\ reads = <<>> /\ selected = 0
    /\ source = [genres |-> Genres, libraries |-> Libraries, items |-> Films,
                 filters |-> TRUE]
    /\ playlist = <<>> /\ calls = <<>> /\ url_params = NoParams /\ library_ids = {}
    /\ all_items = <<>> /\ compiled = <<>> /\ runs = <<>> /\ failed = 0
    /\ IntervalIdle /\ SorterIdle

isinstance_DynamicPlaylist(p) == "include" \in DOMAIN p

\* MediaBar.get_playlist: the position of the first playlist of the name, 0
\* for the KeyError
get_playlist(list, name) ==
    IF \E i \in 1..Len(list) : lower(list[i].name) = lower(name)
    THEN CHOOSE i \in 1..Len(list) :
            /\ lower(list[i].name) = lower(name)
            /\ \A j \in 1..(i - 1) : lower(list[j].name) # lower(name)
    ELSE 0

\* evaluate, lines 815-816: get_playlist of the selected name
GetPlaylist ==
    /\ pc = "selected"
    /\ \E found \in {get_playlist(playlists, conditional_names[selected])} :
        IF found = 0
        THEN /\ pc' = "raised" /\ raised' = "KeyError"
             /\ UNCHANGED <<playlist, static_playlist>>
        ELSE IF isinstance_DynamicPlaylist(playlists[found])
        THEN /\ pc' = "compile" /\ playlist' = playlists[found]
             /\ UNCHANGED <<raised, static_playlist>>
        ELSE /\ pc' = "static" /\ static_playlist' = playlists[found]
             /\ UNCHANGED <<raised, playlist>>
    /\ UNCHANGED <<source, failed, runs, calls, url_params, library_ids, all_items, compiled, args,
                   items_metadata, keys, sorted_ids, mediabarVars, intervalVars,
                   selectorVars>>

\* compile, lines 636-648: list(set(item_ids)) in one of the orders that the
\* set can have, and the StaticPlaylist built from it
CompileReturn ==
    /\ pc = "compiled"
    /\ \E order \in [1..Cardinality(compiled.ids) -> compiled.ids] :
        /\ Range(order) = compiled.ids
        /\ args' = Args(playlist.name, order, playlist.sort_by,
                        playlist.sort_ascending, playlist.sort_strict,
                        Num(playlist.limit, 1))
    /\ static_playlist' = StaticPlaylist(args')
    /\ pc' = "static"
    /\ UNCHANGED <<raised, items_metadata, keys, sorted_ids, mediabarVars,
                   intervalVars, selectorVars, compilerVars>>

\* is_true gets as far as jellyfin.get_user: a user id is given and neither a
\* flag nor the time predicate has returned or raised before line 696
reaches_get_user(c, now, u) ==
    /\ u # None
    /\ ~c.selected
    /\ is_true([c EXCEPT !.user_age = None], now, None) = Ret(TRUE)

\* the request that evaluate makes next, if its next step is one
next_calls ==
    IF pc = "loop"
    THEN IF /\ idx <= Len(conditionals)
            /\ reaches_get_user(conditionals[idx], Moments[clock], user)
         THEN {Call("get_user", <<>>, NoParams)}
         ELSE {}
    ELSE IF pc = "compile" THEN {Call("get_all_genres", <<>>, NoParams)}
    ELSE IF pc = "libraries" THEN {Call("get_all_libraries", <<>>, NoParams)}
    ELSE IF pc = "fetch"
    THEN {Call("get_all_items", library_id, url_params) : library_id \in library_ids}
    ELSE IF /\ pc = "static"
            /\ static_playlist.sort_by \notin {"order", "random"}
            /\ static_playlist.item_ids # <<>>
    THEN {Call("get_items", <<>>, [ids |-> chunks(static_playlist.item_ids)[1]])}
    ELSE {}

\* a request that fails and is made again
SourceFails_retried ==
    /\ failed = 0
    /\ \E call \in next_calls :
            calls' = Append(calls, call) /\ failed' = Len(calls) + 1
    /\ raised' = "HTTPError"
    /\ UNCHANGED <<pc, reads, conditionals, clock, idx, selected, user, playlist, source,
                   runs, url_params, library_ids, all_items, compiled, intervalVars,
                   mediabarVars, sorterVars>>

\* Jellyfin.get, line 145: response.raise_for_status() raises for a request
\* that the server failed, and nothing between it and the caller of evaluate
\* catches the exception
SourceFails ==
    /\ failed = 0
    /\ \E call \in next_calls :
            calls' = Append(calls, call) /\ failed' = Len(calls) + 1
    /\ pc' = "raised" /\ raised' = "HTTPError"
    /\ reads' = IF pc = "loop" THEN Append(reads, clock) ELSE reads
    /\ UNCHANGED <<conditionals, clock, idx, selected, user, playlist, source, runs,
                   url_params, library_ids, all_items, compiled, intervalVars,
                   mediabarVars, sorterVars>>

EvaluateNext ==
    \/ GetSelectedDefault \/ GetSelectedLoop \/ Tick \/ GetPlaylist
    \/ CompileGenres \/ CompileLibraries \/ CompileFetch \/ CompileFilter
    \/ CompileReturn
    \/ SortOrder \/ SortRandom \/ SortFetch \/ SortItems

EvaluateSpec == EvaluateInit /\ [][EvaluateNext]_vars

\* evaluate, for a user or for none, against a server whose answer to any
\* request can be a failure
FailureInit ==
    /\ pc = "get_selected"
    /\ raised = "none"
    /\ \E bar \in ConditionalChoices :
            conditionals = bar.conditionals /\ conditional_names = bar.names
    /\ playlists \in PlaylistChoices
    /\ filedata = <<>>
    /\ clock \in 1..Len(Moments)
    /\ user \in {None, List(<<chars("16")>>)}
    /\ idx = 0 /\ reads = <<>> /\ selected = 0
    /\ source = [genres |-> Genres, libraries |-> Libraries, items |-> Films,
                 filters |-> TRUE]
    /\ playlist = <<>> /\ calls = <<>> /\ url_params = NoParams /\ library_ids = {}
    /\ all_items = <<>> /\ compiled = <<>> /\ runs = <<>> /\ failed = 0
    /\ IntervalIdle /\ SorterIdle

FailureNext == EvaluateNext \/ SourceFails

FailureSpec == FailureInit /\ [][FailureNext]_vars

----------------------------------------------------------------------------
(* The loading specification: MediaBar.__parse_file of one configuration    *)

\* the entries of the selection, and of the playlists, of a configuration
MaxEntries == 2

NameChoices == {chars("films"), chars("Films"), chars("list")}

SelectionChoices ==
    UNION {[1..n -> {[name |-> name, conditions |-> NoConditions] :
                        name \in NameChoices}] : n \in 0..MaxEntries}

PlaylistEntryChoices ==
    UNION {[1..n -> {[name |-> name, type |-> type] :
                        name \in NameChoices,
                        type \in {"static", "dynamic", "smart"}}] : n \in 0..MaxEntries}

\* the entries before entry i that carry its name
earlier(names, i) == {j \in 1..(i - 1) : names[j] = names[i]}

\* __parse_selection with the names compared as they are written
parse_selection_as_written(data) ==
    LET names == [i \in 1..Len(data) |-> data[i].name]
    IN  IF \E i \in 1..Len(data) : earlier(names, i) # {}
        THEN Raise("KeyError")
        ELSE Ret([conditionals |-> [i \in 1..Len(data) |-> data[i].conditions],
                  names |-> [i \in 1..Len(data) |-> lower(names[i])]])

\* MediaBar.__parse_selection: the Conditionals and their names, or the
\* KeyError of the first entry that repeats a lower-cased name
parse_selection(data) ==
    LET names == [i \in 1..Len(data) |-> lower(data[i].name)]
    IN  IF \E i \in 1..Len(data) : earlier(names, i) # {}
        THEN Raise("KeyError")
        ELSE Ret([conditionals |-> [i \in 1..Len(data) |-> data[i].conditions],
                  names |-> names])

\* the playlist that __parse_playlists builds from an entry of a known type
new_playlist(name, type) ==
    IF type = "static"
    THEN StaticPlaylist(Args(name, <<chars("f4"), chars("f1")>>, "order", TRUE, FALSE,
                             None))
    ELSE DynamicPlaylist(name, 10, rules_of("include", <<>>), rules_of("exclude", <<>>),
                         "order")

\* MediaBar.__parse_playlists: in every round the duplicate check comes
\* before the check of the type
parse_playlists(data) ==
    LET names == [i \in 1..Len(data) |-> lower(data[i].name)]
        fails(i) == \/ earlier(names, i) # {}
                    \/ data[i].type \notin {"static", "dynamic"}
    IN  IF \E i \in 1..Len(data) : fails(i)
        THEN LET i == CHOOSE i \in 1..Len(data) :
                        fails(i) /\ \A j \in 1..(i - 1) : ~fails(j)
             IN  IF earlier(names, i) # {} THEN Raise("KeyError")
                 ELSE Raise("ValueError")
        ELSE Ret([i \in 1..Len(data) |-> new_playlist(names[i], data[i].type)])

LoadInit ==
    /\ pc = "load"
    /\ raised = "none"
    /\ filedata \in {[selection |-> selection, playlists |-> entries] :
                        selection \in SelectionChoices, entries \in PlaylistEntryChoices}
    /\ conditionals = <<>> /\ conditional_names = <<>> /\ playlists = <<>>
    /\ clock = 1 /\ idx = 0 /\ reads = <<>> /\ selected = 0 /\ user = None
    /\ IntervalIdle /\ CompilerIdle /\ SorterIdle

\* MediaBar.__parse_file: the selection, then the playlists
ParseFile ==
    /\ pc = "load"
    /\ \E selection \in {parse_selection(filedata.selection)} :
        IF selection.err # "none"
        THEN /\ pc' = "raised" /\ raised' = selection.err
             /\ UNCHANGED <<conditionals, conditional_names, playlists>>
        ELSE /\ conditionals' = selection.val.conditionals
             /\ conditional_names' = selection.val.names
             /\ \E parsed \in {parse_playlists(filedata.playlists)} :
                    IF parsed.err # "none"
                    THEN pc' = "raised" /\ raised' = parsed.err /\ UNCHANGED playlists
                    ELSE pc' = "loaded" /\ playlists' = parsed.val /\ UNCHANGED raised
    /\ UNCHANGED <<filedata, clock, idx, reads, selected, user, intervalVars,
                   compilerVars, sorterVars>>

LoadNext == ParseFile

LoadSpec == LoadInit /\ [][LoadNext]_vars

----------------------------------------------------------------------------
(* Claims about Interval, checked under IntervalSpec *)

\* the ordering of a domain: of numbers, or of strings
DomainLeq(a, b) ==
    IF a.k = "num" THEN a.n * b.d <= b.n * a.d
    ELSE a.s = b.s \/ str_lt(a.s, b.s)

SameDomain(i, v) ==
    \/ i.data_type = "numeric" /\ v.k = "num"
    \/ i.data_type = "alphabetic" /\ v.k = "str"

IntervalDone == pc \in {"constructed", "contained", "raised"}

\* C4: a closed numeric or alphabetic range "A-B" contains a value v of its
\* domain exactly when A <= v <= B if A <= B, and when v >= A or v <= B if
\* A > B; it contains A and B, and an inverted range rejects every v strictly
\* between B and A ("22-04" accepts 23 and 2 and rejects 12).
C4_ClosedContainment ==
    LET A == ivl.lower_bound
        B == ivl.upper_bound
    IN  /\ (pc = "contained" /\ ivl.interval_type = "closed" /\ SameDomain(ivl, value))
            => /\ res.err = "none"
               /\ DomainLeq(A, B)
                    => (res.val <=> (DomainLeq(A, value) /\ DomainLeq(value, B)))
               /\ ~DomainLeq(A, B)
                    => (res.val <=> (DomainLeq(A, value) \/ DomainLeq(value, B)))
               /\ (~DomainLeq(A, B) /\ ~DomainLeq(value, B) /\ ~DomainLeq(A, value))
                    => ~res.val
        /\ (pc \in {"constructed", "contained"} /\ ivl.interval_type = "closed")
            => contains(ivl, A) = Ret(TRUE) /\ contains(ivl, B) = Ret(TRUE)
        /\ (pc = "contained" /\ text = chars("22-04"))
            => /\ value = Num(23, 1) => res = Ret(TRUE)
               /\ value = Num(2, 1) => res = Ret(TRUE)
               /\ value = Num(12, 1) => res = Ret(FALSE)

\* C4 witness: the inverted range "22-04" was asked about 12, which lies
\* strictly between its bounds, and rejected it
C4_Witness ==
    /\ pc = "contained" /\ text = chars("22-04") /\ ivl.interval_type = "closed"
    /\ value = Num(12, 1) /\ res = Ret(FALSE)

\* a text that is one token: no separator, numeric or lowercase alphabetic
SingleToken(t) == any_pattern(t) /\ (numeric_pattern(t) \/ alphabetic_pattern(t))

\* C5: a range text that is a single token "A" is constructed as an exact
\* range, and contains(v) is true exactly when v equals A.
C5_ExactRange ==
    (IntervalDone /\ SingleToken(text))
        => /\ raised = "none"
           /\ ivl.interval_type = "exact"
           /\ pc = "contained"
                => res = Ret(py_eq(value, IF numeric_pattern(text)
                                          THEN float(text) ELSE Str(text)))

\* the bound tokens of a range text
Tokens(t) == re_split(t)

\* a closed, left-open or right-open range text whose bound tokens are dates
DateRange(t) ==
    /\ Len(Tokens(t)) = 2
    /\ \/ date_pattern(Tokens(t)[1]) /\ date_pattern(Tokens(t)[2])
       \/ Tokens(t)[1] = <<>> /\ date_pattern(Tokens(t)[2])
       \/ date_pattern(Tokens(t)[1]) /\ Tokens(t)[2] = <<>>

\* the date a YYYY_MM_DD token denotes, as a datetime at midnight
DateOf(token) ==
    DateTime(digits_value(SubSeq(token, 1, 4)) * 1000000
             + digits_value(SubSeq(token, 6, 7)) * 10000
             + digits_value(SubSeq(token, 9, 10)) * 100)

\* C6: a range whose bound tokens match the YYYY_MM_DD pattern is constructed
\* as a date range, and contains compares a date with its bounds in the order
\* of dates.
C6_DateRange ==
    (IntervalDone /\ DateRange(text))
        => /\ raised = "none"
           /\ ivl.data_type = "date"
           /\ (pc = "contained" /\ value.k = "datetime")
                => /\ res.err = "none"
                   /\ (Tokens(text)[1] # <<>> /\ Tokens(text)[2] = <<>>)
                        => (res.val <=> DateOf(Tokens(text)[1]).n <= value.n)
                   /\ (Tokens(text)[1] = <<>> /\ Tokens(text)[2] # <<>>)
                        => (res.val <=> value.n <= DateOf(Tokens(text)[2]).n)

\* the domain pattern a token matches
Domain(token) ==
    IF numeric_pattern(token) THEN "numeric"
    ELSE IF alphabetic_pattern(token) THEN "alphabetic"
    ELSE IF date_pattern(token) THEN "date"
    ELSE "none"

\* C7: a closed range whose two tokens match different domain patterns fails
\* with a TypeError, and one whose two tokens match the same domain pattern
\* is constructed with that domain.
C7_ClosedDomains ==
    (/\ IntervalDone
     /\ Len(Tokens(text)) = 2
     /\ Domain(Tokens(text)[1]) # "none"
     /\ Domain(Tokens(text)[2]) # "none")
        => IF Domain(Tokens(text)[1]) # Domain(Tokens(text)[2])
           THEN raised = "TypeError"
           ELSE /\ raised = "none"
                /\ ivl.interval_type = "closed"
                /\ ivl.data_type = Domain(Tokens(text)[1])

\* the number of separator characters of a text
Dashes(t) == Cardinality({i \in 1..Len(t) : t[i] = "-"})

\* a text of one of the shapes "A-B", "-B", "A-", "-" (one separator) or "A"
\* (none, and not empty)
FiveShapes(t) == Dashes(t) = 1 \/ (Dashes(t) = 0 /\ Len(t) > 0)

\* C8: Interval construction raises SyntaxError exactly for the texts that
\* match none of the five shapes "A-B", "-B", "A-", "-", "A".
C8_SyntaxErrorIffNoShape ==
    IntervalDone => (raised = "SyntaxError" <=> ~FiveShapes(text))

\* C8 witness: a text with two separators was rejected with SyntaxError
C8_Witness ==
    /\ pc = "raised" /\ raised = "SyntaxError" /\ text = chars("a-b-c")

\* the value a bound token denotes in its domain
BoundOf(token) ==
    IF numeric_pattern(token) THEN float(token)
    ELSE IF alphabetic_pattern(token) THEN Str(token)
    ELSE DateOf(token)

\* a value of the domain of a bound token
InDomain(v, token) ==
    \/ Domain(token) = "numeric" /\ v.k = "num"
    \/ Domain(token) = "alphabetic" /\ v.k = "str"
    \/ Domain(token) = "date" /\ v.k = "datetime"

\* a <= b within one domain
ValueLeq(a, b) == IF a.k = "datetime" THEN a.n <= b.n ELSE DomainLeq(a, b)

\* C29: a left-open range "-B" contains a value v of its domain exactly when
\* v <= B, a right-open range "A-" exactly when v >= A, and the open range
\* "-" contains every value; each of them is constructed without an error.
C29_HalfOpenRanges ==
    (IntervalDone /\ Len(Tokens(text)) = 2) =>
        /\ (Tokens(text)[1] = <<>> /\ Tokens(text)[2] = <<>>)
            => raised = "none" /\ (pc = "contained" => res = Ret(TRUE))
        /\ (Tokens(text)[1] = <<>> /\ Domain(Tokens(text)[2]) # "none")
            => /\ raised = "none"
               /\ (pc = "contained" /\ InDomain(value, Tokens(text)[2]))
                    => res = Ret(ValueLeq(value, BoundOf(Tokens(text)[2])))
        /\ (Domain(Tokens(text)[1]) # "none" /\ Tokens(text)[2] = <<>>)
            => /\ raised = "none"
               /\ (pc = "contained" /\ InDomain(value, Tokens(text)[1]))
                    => res = Ret(ValueLeq(BoundOf(Tokens(text)[1]), value))

----------------------------------------------------------------------------
(* Claims about the selector, checked under SelectorSpec *)

\* the outcome of the is_true call that get_selected made on rule i
Evaluated(i) == is_true(conditionals[i], Moments[reads[i]], user)

Satisfied(i) == Evaluated(i).err = "none" /\ Evaluated(i).val

\* C1: get_selected returns the first rule, in declared order, whose
\* conditions are satisfied, and the last rule when no rule is satisfied; it
\* raises only when the list is empty or the is_true call it made raised.
C1_FirstSatisfiedElseLast ==
    /\ pc = "selected"
        => /\ selected \in 1..Len(conditionals)
           /\ \A i \in 1..Len(reads) : i < selected => ~Satisfied(i)
           /\ \/ selected <= Len(reads) /\ Satisfied(selected)
              \/ /\ selected = Len(conditionals)
                 /\ Len(reads) = Len(conditionals)
                 /\ \A i \in 1..Len(conditionals) : ~Satisfied(i)
    /\ pc = "raised"
        => \/ Len(conditionals) = 0 /\ raised = "IndexError"
           \/ /\ Len(reads) > 0
              /\ Evaluated(Len(reads)).err = raised
              /\ raised # "none"

\* C1 witness: no rule of a list of two was satisfied and the last one was
\* returned
C1_Witness ==
    /\ pc = "selected" /\ Len(conditionals) >= 2 /\ selected = Len(conditionals)
    /\ Len(reads) = Len(conditionals)
    /\ \A i \in 1..Len(conditionals) : ~Satisfied(i)
    /\ \A i \in 1..Len(conditionals) : ~conditionals[i].disabled

\* C2: the rule get_selected returns never has disabled = true.
C2_DisabledNeverSelected ==
    pc = "selected" => ~conditionals[selected].disabled

Malformed(c) ==
    \E f \in Range(Families) \cup {"user_age"} :
        c[f] # None /\ parse_interval(c[f].s).err = "SyntaxError"

\* C20: get_selected over a rule list that holds a rule with a malformed range
\* raises; it does not return a selection.
C20_MalformedRangeRaises ==
    (pc \in {"selected", "raised"}
        /\ \E i \in 1..Len(conditionals) : Malformed(conditionals[i]))
    => pc = "raised"

\* the time predicate families a rule carries
Present(c) == {f \in 1..Len(Families) : c[Families[f]] # None}

\* a rule with several families whose outcome is that of its time predicates
SeveralFamilies(c) ==
    /\ ~c.disabled /\ ~c.selected
    /\ Cardinality(Present(c)) >= 2
    /\ (user = None \/ c.user_age = None)

\* what the is_true call on rule i came to, as get_selected went on after it:
\* "true" (the loop ended at i), "false" (the loop went on), or the exception
Outcome(i) ==
    IF i < Len(reads) THEN "false"
    ELSE IF pc = "raised" THEN raised
    ELSE IF pc = "selected" /\ idx = i THEN "true"
    ELSE "false"

\* the containment result of the first family of a rule at a moment
FirstFamilyAlone(c, now) ==
    LET first == Families[CHOOSE f \in Present(c) : \A g \in Present(c) : f <= g]
        r == interval_contains(c[first].s, now_value(first, now))
    IN  IF r.err # "none" THEN r.err ELSE IF r.val THEN "true" ELSE "false"

----------------------------------------------------------------------------
(* Claims about DynamicPlaylist.compile, checked under CompileSpec *)

CompileDone == pc \in {"compiled", "raised"}

\* the order in which compile has iterated the library ids
library_order ==
    LET fetches == SelectSeq(calls, LAMBDA c : c.op = "get_all_items")
    IN  [i \in 1..Len(fetches) |-> fetches[i].parentId]

\* the facets that carry an include rule and an exclude rule
BothConfigured(p) ==
    {f \in Facets \ {"item_ids"} : p.include[f] # None /\ p.exclude[f] # None}

\* C9: when a facet carries both an include rule and an exclude rule, the
\* outcome of compile is the outcome of the same playlist without that exclude
\* rule.
C9_IncludeWins ==
    CompileDone =>
        \A f \in BothConfigured(playlist) :
            compiled = compile([playlist EXCEPT !.exclude[f] = None], source,
                               library_order)

\* a playlist with both rules for one facet was compiled to some ids, and its
\* exclude rule alone would have had another outcome
C9_Witness ==
    /\ pc = "compiled"
    /\ compiled.ids # {}
    /\ \E f \in BothConfigured(playlist) :
            compile([playlist EXCEPT !.include[f] = None], source, library_order)
                # compiled

\* the include filters of the playlist that hold a value of the item which
\* they do not contain
Outside(p, item) ==
    {i \in 1..Len(FilterNames) :
        /\ p.include[FilterNames[i]] # None
        /\ get_func(FilterNames[i], item) # None
        /\ ~contains_any(parse_filter(p, "include", FilterNames[i]).f,
                         get_func(FilterNames[i], item)).val}

\* C10: a fetched item whose value lies outside the include rule of some
\* filterable attribute is not among the compiled ids, unless include.item_ids
\* names it.
C10_IncludeEveryAttribute ==
    pc = "compiled" =>
        \A item \in Range(all_items) :
            Outside(playlist, item) # {}
                => \/ item.Id \notin compiled.ids
                   \/ /\ playlist.include.item_ids # None
                      /\ item.Id \in parse_set(playlist.include.item_ids.s)

\* the exclude filters that compile reads and that contain a value of the item
Hit(p, item) ==
    {i \in 1..Len(FilterNames) :
        /\ rule_read(p, "exclude", FilterNames[i]) # None
        /\ get_func(FilterNames[i], item) # None
        /\ contains_any(parse_filter(p, "exclude", FilterNames[i]).f,
                        get_func(FilterNames[i], item)).val}

ForceIncluded(p) ==
    IF p.include.item_ids # None THEN parse_set(p.include.item_ids.s) ELSE {}

ForceExcluded(p) ==
    IF p.exclude.item_ids # None THEN parse_set(p.exclude.item_ids.s) ELSE {}

\* C11: a fetched item whose value intersects the exclude rule of some
\* filterable attribute is not among the compiled ids, unless include.item_ids
\* names it.
C11_ExcludeDropsIntersecting ==
    pc = "compiled" =>
        \A item \in Range(all_items) :
            Hit(playlist, item) # {}
                => item.Id \notin compiled.ids \ ForceIncluded(playlist)

\* the playlist carries this one rule and no other
OnlyRule(p, side, name) ==
    /\ p[side][name] # None
    /\ \A s \in {"include", "exclude"} : \A f \in Facets :
            (s # side \/ f # name) => p[s][f] = None

\* no other fetched item lacks a Name, nor does the item unless the filter is
\* the one on the Name
NamedElse(item, name) ==
    \A other \in Range(all_items) :
        (other # item \/ name # "startwith_name") => other.Name # None

\* C12: an item without the attribute of a rule does not make compile raise
\* KeyError; when that rule is the only rule of the playlist, its include
\* rule does not add the item and its exclude rule does not remove it.
C12_MissingAttributeSkipped ==
    CompileDone =>
        \A i \in 1..Len(FilterNames) : \A item \in Range(all_items) :
            get_func(FilterNames[i], item) = None =>
                /\ (/\ \/ playlist.include[FilterNames[i]] # None
                        \/ playlist.exclude[FilterNames[i]] # None
                     /\ NamedElse(item, FilterNames[i]))
                    => raised # "KeyError"
                /\ (pc = "compiled" /\ OnlyRule(playlist, "include", FilterNames[i]))
                    => item.Id \notin compiled.ids
                /\ (pc = "compiled" /\ OnlyRule(playlist, "exclude", FilterNames[i]))
                    => item.Id \in compiled.ids

\* C13: no id that exclude.item_ids lists is among the compiled ids, and every
\* id that include.item_ids lists and exclude.item_ids does not is among them.
C13_ForcedIds ==
    pc = "compiled" =>
        /\ compiled.ids \cap ForceExcluded(playlist) = {}
        /\ ForceIncluded(playlist) \ ForceExcluded(playlist) \subseteq compiled.ids

\* C18: a playlist with an unsupported sort_by does not get as far as a call
\* to the metadata source: its construction has raised.
C18_SortByFailsFast ==
    playlist.sort_by \notin SupportedSortBy => calls = <<>>

\* the genre step of compile is over
GenresDone == pc # "compile" /\ Len(calls) >= 1

\* C24: with exclude.genres configured and include.genres absent, compile
\* gets through its genre step and restricts the fetch to the genres of the
\* source other than those the excluded names match.
C24_ExcludeGenresScope ==
    (/\ GenresDone
     /\ playlist.include.genres = None /\ playlist.exclude.genres # None) =>
        /\ ~(pc = "raised" /\ Len(calls) = 1)
        /\ url_params.genres_sent
        /\ url_params.genreIds =
                {source.genres[i].Id : i \in 1..Len(source.genres)}
                    \ matched_genres(parse_list(playlist.exclude.genres.s),
                                      source.genres).ids

\* every library has been fetched: compile is at or past its type filter
FetchDone == (pc = "fetch" /\ library_ids = {}) \/ pc = "compiled"

\* the lower-cased text of an optional field
lower_of(field) == IF field = None THEN <<>> ELSE lower(field.s)

\* C27: after the step that removes the items of an excluded item type, the
\* MediaType or the Type of every remaining item is one of the allowed item
\* types, whatever the source returned.
C27_OnlyAllowedTypes ==
    FetchDone =>
        \A i \in 1..Len(scope_items(playlist, all_items)) :
            LET item == scope_items(playlist, all_items)[i]
            IN  \/ lower_of(item.MediaType) \in item_types(playlist)
                \/ lower_of(item.Type) \in item_types(playlist)

\* startwith_name is the only include rule that can keep an item, and its
\* text is a closed range of two alphabetic bounds
OnlyNamePrefixRange(p) ==
    /\ p.include.startwith_name # None
    /\ \A i \in 1..Len(FilterNames) :
            FilterNames[i] # "startwith_name" => p.include[FilterNames[i]] = None
    /\ p.include.item_ids = None
    /\ Len(Tokens(lower(p.include.startwith_name.s))) = 2
    /\ \A i \in 1..2 :
            Domain(Tokens(lower(p.include.startwith_name.s))[i]) = "alphabetic"

\* some beginning of the name, as it is written or lower-cased, lies between
\* the two bounds of the range text
BeginsWithin(name, t) ==
    \E n \in 1..Len(name) : \E prefix \in {SubSeq(name, 1, n), lower(SubSeq(name, 1, n))} :
        /\ DomainLeq(Str(Tokens(lower(t))[1]), Str(prefix))
        /\ DomainLeq(Str(prefix), Str(Tokens(lower(t))[2]))

\* C28: an include rule on startwith_name with an alphabetic range keeps an
\* item only if the beginning of its name lies within the range, whatever
\* letters occur later in the name.
C28_NamePrefixRange ==
    (pc = "compiled" /\ OnlyNamePrefixRange(playlist)) =>
        \A i \in 1..Len(source.items) :
            source.items[i].Id \in compiled.ids =>
                /\ source.items[i].Name # None
                /\ BeginsWithin(source.items[i].Name.s,
                                playlist.include.startwith_name.s)

\* the requests of some calls, each as often as it was made
requests(cs) == [c \in Range(cs) |-> Cardinality({i \in 1..Len(cs) : cs[i] = c})]

----------------------------------------------------------------------------
(* Claims about StaticPlaylist, checked under PlaylistSpec *)

\* the StaticPlaylist object exists: its constructor has returned
Constructed == pc # "new" /\ static_playlist.err = "none"

\* the position of the first occurrence of an id in a list
first_occurrence(ids, id) ==
    CHOOSE i \in 1..Len(ids) : ids[i] = id /\ \A j \in 1..(i - 1) : ids[j] # id

\* C19: the stored sequence of a StaticPlaylist holds each id of the
\* constructor's input exactly once, in the order of first occurrence.
C19_FirstOccurrenceOrder ==
    Constructed =>
        /\ Range(static_playlist.item_ids) = Range(args.item_ids)
        /\ \A i, j \in 1..Len(static_playlist.item_ids) :
                i < j =>
                    /\ static_playlist.item_ids[i] # static_playlist.item_ids[j]
                    /\ first_occurrence(args.item_ids, static_playlist.item_ids[i])
                        < first_occurrence(args.item_ids, static_playlist.item_ids[j])

C19_Witness ==
    /\ Constructed
    /\ args.item_ids = <<chars("m1"), chars("m2"), chars("m1"), chars("m3"), chars("m2")>>
    /\ static_playlist.item_ids = <<chars("m1"), chars("m2"), chars("m3")>>

\* sort has returned
Sorted == pc = "sorted" /\ static_playlist.err = "none"

\* the first ids of a sequence that a limit leaves: all of them without one
Limited(ids) ==
    IF static_playlist.limit = None \/ static_playlist.limit.n >= Len(ids) THEN ids
    ELSE [i \in 1..static_playlist.limit.n |-> ids[i]]

Fetched == get_items(source, static_playlist.item_ids)

\* sort has computed the keys of a sort by CriticRating
CriticKeys ==
    /\ pc \in {"sorted", "raised"} /\ static_playlist.err = "none"
    /\ static_playlist.sort_by = "CriticRating"

\* C17: in a sort by CriticRating the key of an item without a CriticRating
\* is 0 when the sort is strict and 10 times its CommunityRating when it is
\* lenient; the key of an item with a CriticRating is that rating in both.
C17_CriticRatingKeys ==
    CriticKeys =>
        /\ Len(keys) = Len(Fetched)
        /\ \A i \in 1..Len(keys) :
            /\ keys[i].err = "none" /\ keys[i].val.k = "num"
            /\ Fetched[i].CriticRating # None =>
                    keys[i].val.n * Fetched[i].CriticRating.d
                        = Fetched[i].CriticRating.n * keys[i].val.d
            /\ (Fetched[i].CriticRating = None /\ static_playlist.sort_strict) =>
                    keys[i].val.n = 0
            /\ (/\ Fetched[i].CriticRating = None /\ ~static_playlist.sort_strict
                /\ Fetched[i].CommunityRating # None) =>
                    keys[i].val.n * Fetched[i].CommunityRating.d
                        = 10 * Fetched[i].CommunityRating.n * keys[i].val.d

C17_Witness ==
    /\ CriticKeys /\ pc = "sorted" /\ ~static_playlist.sort_strict
    /\ \E i, j \in 1..Len(keys) :
        /\ Fetched[i].CriticRating = None
        /\ Fetched[i].CommunityRating = Num(77, 10) /\ keys[i].val = Num(770, 10)
        /\ Fetched[j].CriticRating = Num(82, 1) /\ keys[j].val = Num(82, 1)

\* no element twice
NoDuplicates(ids) == \A i, j \in 1..Len(ids) : ids[i] = ids[j] => i = j

\* C30: whatever the sort_by mode and the limit, the sequence that sort
\* returns holds only ids of the stored sequence, none of them twice, and at
\* most `limit` of them; without a limit, and when the source knows every
\* stored id, it is a permutation of the stored sequence. The stored sequence
\* is after the sort what the constructor made it.
C30_SortResultWithinStored ==
    Sorted =>
        /\ Range(sorted_ids) \subseteq Range(static_playlist.item_ids)
        /\ NoDuplicates(sorted_ids)
        /\ static_playlist.limit # None => Len(sorted_ids) <= static_playlist.limit.n
        /\ (/\ static_playlist.limit = None
            /\ Len(Fetched) = Len(static_playlist.item_ids))
                => /\ Len(sorted_ids) = Len(static_playlist.item_ids)
                   /\ Range(sorted_ids) = Range(static_playlist.item_ids)
        /\ static_playlist.item_ids = unique(args.item_ids)

C30_Witness ==
    /\ Sorted
    /\ static_playlist.sort_by \notin {"order", "random"}
    /\ static_playlist.limit # None
    /\ Len(static_playlist.item_ids) > static_playlist.limit.n
    /\ Len(Fetched) < Len(static_playlist.item_ids)
    /\ Len(sorted_ids) = static_playlist.limit.n
    /\ sorted_ids # SubSeq(static_playlist.item_ids, 1, Len(sorted_ids))

----------------------------------------------------------------------------
(* Claims about MediaBar.evaluate, checked under EvaluateSpec *)

\* evaluate has returned the sorted ids of a compiled dynamic playlist
EvaluatedDynamic == pc = "sorted" /\ isinstance_DynamicPlaylist(playlist)

\* the key that sort computed for the item of an id
KeyOf(id) == keys[CHOOSE i \in 1..Len(Fetched) : Fetched[i].Id = id].val

\* a ranks before b, or equal to it, in the direction of the playlist
RanksFirst(a, b) ==
    IF static_playlist.sort_ascending THEN py_le(KeyOf(a), KeyOf(b)).val
    ELSE py_le(KeyOf(b), KeyOf(a)).val

\* C14: compile followed by sort on a named attribute returns the first
\* `limit` items of the sorted candidates: as many as the limit allows, in
\* the order of their keys, and none of the candidates left out ranks before
\* one that is returned.
C14_LimitAfterSort ==
    (EvaluatedDynamic /\ static_playlist.sort_by \notin {"order", "random"}) =>
        /\ Range(sorted_ids) \subseteq compiled.ids
        /\ Len(sorted_ids) = IF playlist.limit < Len(Fetched) THEN playlist.limit
                              ELSE Len(Fetched)
        /\ \A i, j \in 1..Len(sorted_ids) :
                i < j => sorted_ids[i] # sorted_ids[j]
                         /\ RanksFirst(sorted_ids[i], sorted_ids[j])
        /\ \A i \in 1..Len(sorted_ids) : \A j \in 1..Len(Fetched) :
                Fetched[j].Id \notin Range(sorted_ids)
                    => RanksFirst(sorted_ids[i], Fetched[j].Id)

\* the limit cuts the candidates, and the first of them in stored order is
\* not among the returned
C14_Witness ==
    /\ EvaluatedDynamic /\ static_playlist.sort_by = "CommunityRating"
    /\ ~static_playlist.sort_ascending
    /\ playlist.limit < Len(Fetched)
    /\ static_playlist.item_ids[1] \notin Range(sorted_ids)
    /\ Len(sorted_ids) = playlist.limit

\* a dynamic playlist of movies of a closed range of years, newest first
MoviesOfYears(p) ==
    /\ isinstance_DynamicPlaylist(p)
    /\ p.include.item_types = Str(chars("Movie"))
    /\ p.include.years # None /\ closed_pattern(p.include.years.s)
    /\ \A f \in Facets \ {"item_types", "years"} : p.include[f] = None
    /\ \A f \in Facets : p.exclude[f] = None
    /\ p.sort_by = "ProductionYear" /\ ~p.sort_ascending

\* the movies of the server with a year in the range dddd-dddd of a rule
InRangeMovies(years) ==
    {item \in Range(source.items) :
        /\ item.Type = Str(chars("Movie")) /\ item.ProductionYear # None
        /\ item.ProductionYear.n >= digits_value(SubSeq(years, 1, 4))
        /\ item.ProductionYear.n <= digits_value(SubSeq(years, 6, 9))}

YearOf(id) == (CHOOSE item \in Range(source.items) : item.Id = id).ProductionYear.n

\* C15: evaluate of a selected dynamic playlist with include.item_types =
\* "Movie", include.years = a closed range, limit = k, sort_by =
\* ProductionYear and sort_ascending = false returns the selected name and
\* the ids of the k in-range movies of the greatest years, newest first.
C15_NewestMoviesInRange ==
    MoviesOfYears(playlist) =>
        /\ raised = "none"
        /\ pc = "sorted" =>
            /\ lower(conditional_names[selected]) = lower(playlist.name)
            /\ Len(sorted_ids) =
                    IF playlist.limit < Cardinality(InRangeMovies(playlist.include.years.s))
                    THEN playlist.limit
                    ELSE Cardinality(InRangeMovies(playlist.include.years.s))
            /\ \A i \in 1..Len(sorted_ids) :
                /\ \E item \in InRangeMovies(playlist.include.years.s) :
                        item.Id = sorted_ids[i]
                /\ \A j \in 1..Len(sorted_ids) :
                        i < j => YearOf(sorted_ids[i]) > YearOf(sorted_ids[j])
                /\ \A item \in InRangeMovies(playlist.include.years.s) :
                        item.Id \notin Range(sorted_ids)
                            => item.ProductionYear.n < YearOf(sorted_ids[i])

\* of the years 1999, 2001, 2005, 2010 and 2015 the range 2000-2010 and the
\* limit 2 leave 2010 and 2005
C15_Witness ==
    /\ pc = "sorted" /\ MoviesOfYears(playlist)
    /\ playlist.include.years = Str(chars("2000-2010")) /\ playlist.limit = 2
    /\ conditional_names[selected] = chars("films")
    /\ sorted_ids = <<chars("f4"), chars("f3")>>

\* the rules whose name no playlist of the configuration carries
Undefined == {i \in 1..Len(conditional_names) :
                get_playlist(playlists, conditional_names[i]) = 0}

\* C21: a configuration with a rule that names a playlist without a
\* definition never gets to a (name, ids) result: its evaluation raises.
C21_UndefinedPlaylistFatal ==
    Undefined # {} => pc # "sorted"

\* C22: once a request to the metadata source has failed, the evaluation has
\* ended with the error of that request, the failed request is the last one
\* made, and there is no (name, ids) result.
C22_SourceFailurePropagates ==
    failed # 0 =>
        /\ pc = "raised" /\ raised = "HTTPError"
        /\ failed = Len(calls)
        /\ sorted_ids = <<>>

C22_Witness ==
    /\ failed # 0 /\ pc = "raised"
    /\ calls[failed].op = "get_items"
    /\ \E i \in 1..(failed - 1) : calls[i].op = "get_all_items"

----------------------------------------------------------------------------
(* Claims about MediaBar.__parse_file, checked under LoadSpec *)

\* two entries whose names are equal once they are lower-cased
SameNameTwice(data) ==
    \E i, j \in 1..Len(data) : i # j /\ lower(data[i].name) = lower(data[j].name)

\* C23: loading fails when two rules, or two playlists, carry names that are
\* equal after lower-casing; after a successful load the rules and the
\* playlists carry the lower-cased names of their entries, and no two rules
\* and no two playlists carry the same name.
C23_NamesNormalizedUnique ==
    /\ (/\ pc # "load"
        /\ SameNameTwice(filedata.selection) \/ SameNameTwice(filedata.playlists))
            => pc = "raised"
    /\ pc = "loaded" =>
        /\ Len(conditional_names) = Len(filedata.selection)
        /\ Len(playlists) = Len(filedata.playlists)
        /\ \A i \in 1..Len(conditional_names) :
                conditional_names[i] = lower(filedata.selection[i].name)
        /\ \A i \in 1..Len(playlists) :
                playlists[i].name = lower(filedata.playlists[i].name)
        /\ NoDuplicates(conditional_names)
        /\ NoDuplicates([i \in 1..Len(playlists) |-> playlists[i].name])

C23_Witness ==
    /\ pc = "raised" /\ raised = "KeyError"
    /\ SameNameTwice(filedata.selection)
    /\ NoDuplicates([i \in 1..Len(filedata.selection) |-> filedata.selection[i].name])

====
